---- MODULE Spec2Model ----
(***************************************************************************)
(* Weekly venue-scheduling optimizer (genetic_algo_optimization.py) and    *)
(* the routers around it.                                                  *)
(*                                                                         *)
(* Time.  Every datetime is an aware UTC datetime in the source.  It is    *)
(* modelled as an integer number of minutes counted from 00:00 UTC of      *)
(* target_start_date, so date() is t \div 1440 (a day offset from the      *)
(* target start date) and time() is t % 1440.  date.weekday() of day       *)
(* offset d is (start_weekday + d) % 7 with Monday = 0 and Sunday = 6.     *)
(*                                                                         *)
(* Scores.  Python computes the fitness score in floats; the model keeps   *)
(* it exactly, in tenths of a point (the factors 0.5 and 0.8 of the        *)
(* source then stay integral).                                             *)
(***************************************************************************)
EXTENDS Integers, Sequences, FiniteSets, TLC

VARIABLES
    pc,            \* position of the operation in progress
    request,       \* OptimizeRequest: week start (its weekday), GA parameters
    calendar_file, \* content of the academic calendar file (CONFIG_FILE_PATH)
    db,            \* the MongoDB collections the optimizer reads
    ga_data,       \* the run context (dict built by fetch_ga_data)
    weights,       \* fitness weights handed to calculate_fitness
    chromosome,    \* calculate_fitness: the chromosome being evaluated
    fit,           \* calculate_fitness: its result and per-event charges
    rng,           \* values the random source returns (days, hours, minutes)
    population,    \* the chromosomes of the current generation
    best,          \* best_chromosome_overall with its fitness and violations
    generation,    \* number of generations completed
    ret,           \* what optimize_weekly_schedule returns: entries, ids, report
    call,          \* a call of a helper function: its arguments and result
    evaluated      \* of the fitness results the GA loop has computed so far,
                   \* those that none of them beats

\* ------------------------------------------------------------------------
\* Time helpers (datetime / date / time of the Python standard library)
\* ------------------------------------------------------------------------
DayMin == 24 * 60
WeekDays == 7
NoneDT == 0 - 999999          \* a datetime field that is None / absent

HM(h, m) == h * 60 + m                      \* time(h, m)
DateOf(t) == t \div DayMin                  \* datetime.date()
TimeOf(t) == t % DayMin                     \* datetime.time()
At(d, tod) == d * DayMin + tod              \* datetime.combine(date, time)
Weekday(sw, d) == (sw + d) % 7              \* date.weekday()
Max2(a, b) == IF a >= b THEN a ELSE b
Min2(a, b) == IF a <= b THEN a ELSE b

\* two half-open intervals [s1, e1) and [s2, e2) share an instant
ShareInstant(s1, e1, s2, e2) == Max2(s1, s2) < Min2(e1, e2)

DayName(wd) ==                              \* strftime("%A")
    CASE wd = 0 -> "Monday" [] wd = 1 -> "Tuesday" [] wd = 2 -> "Wednesday"
      [] wd = 3 -> "Thursday" [] wd = 4 -> "Friday" [] wd = 5 -> "Saturday"
      [] OTHER -> "Sunday"

\* A chromosome maps an event id to a slot or to None.
NoSlot == [venue |-> "None", start |-> 0, end |-> 0]
Slot(v, s, e) == [venue |-> v, start |-> s, end |-> e]
IsSlot(x) == x.venue # "None"
NoChromosome == [e \in {} |-> NoSlot]

SeqRange(s) == { s[i] : i \in 1..Len(s) }

RECURSIVE SumQty(_, _, _)
\* total quantity a request list asks of the equipment name nm
SumQty(reqs, id2name, nm) ==
    IF reqs = << >> THEN 0
    ELSE LET r == Head(reqs)
             q == IF r.equipment_id_str \in DOMAIN id2name
                     /\ id2name[r.equipment_id_str] = nm
                  THEN r.quantity ELSE 0
         IN  q + SumQty(Tail(reqs), id2name, nm)

RECURSIVE SumOver(_, _)
SumOver(S, f) ==
    IF S = {} THEN 0
    ELSE LET x == CHOOSE y \in S : TRUE IN f[x] + SumOver(S \ {x}, f)

\* ------------------------------------------------------------------------
\* check_overlap
\* ------------------------------------------------------------------------
check_overlap_nonstrict(start1, end1, start2, end2) ==
    start1 <= end2 /\ end1 >= start2

check_overlap(start1, end1, start2, end2) ==
    start1 < end2 /\ end1 > start2

\* ------------------------------------------------------------------------
\* calculate_fitness: the hard checks of one scheduled event.  Each
\* operator is the number the source adds to current_event_violations.
\* ------------------------------------------------------------------------
Rules(gd) == gd.week_constraints.venue_specific_rules

\* 1. basic time bounds (five independent increments)
TimeBoundsCharge(slot, gd) ==
    LET s  == slot.start
        e  == slot.end
        c1 == IF ~(0 <= DateOf(s) /\ DateOf(s) < WeekDays) THEN 1 ELSE 0
        c2 == IF Weekday(gd.start_weekday, DateOf(s)) = 6 THEN 1 ELSE 0
        c3 == IF HM(22, 0) <= TimeOf(s) \/ TimeOf(s) < HM(6, 0) THEN 1 ELSE 0
        c4 == IF e > At(DateOf(s) + 1, HM(6, 0)) THEN 1 ELSE 0
        c5 == IF (HM(22, 0) < TimeOf(e)
                    \/ (TimeOf(e) <= HM(6, 0) /\ DateOf(e) > DateOf(s)))
                 /\ TimeOf(e) # 0 THEN 1 ELSE 0
    IN  c1 + c2 + c3 + c4 + c5

\* 2. general unavailable slots (first overlap counts once, then break)
GeneralCharge(slot, gd) ==
    LET u == gd.week_constraints.unavailable_general_slots
    IN  IF \E i \in 1..Len(u) :
               check_overlap(slot.start, slot.end, u[i].start, u[i].end)
        THEN 1 ELSE 0

\* venue_type_key_base of a venue document
VenueTypeKeyBase(venue_doc) ==
    IF venue_doc.type_has_classroom THEN "Classroom"
    ELSE IF venue_doc.name_has_uls THEN "ULS"
    ELSE "None"

\* blockage_key for a venue document and the weekday of the slot's start
BlockageKey(venue_doc, wd) ==
    IF VenueTypeKeyBase(venue_doc) = "None" THEN << "None", "None" >>
    ELSE IF wd < 5 THEN << VenueTypeKeyBase(venue_doc), "weekday" >>
    ELSE IF wd = 5 THEN << VenueTypeKeyBase(venue_doc), "weekend_Sat" >>
    ELSE << "None", "None" >>

\* some block of the key applies to the slot: its optional day matches and
\* the times of day of the slot's start and end overlap the block
BlockApplies(slot, key, blockages, wd) ==
    /\ key \in DOMAIN blockages
    /\ \E i \in 1..Len(blockages[key]) :
          LET block == blockages[key][i] IN
          /\ (block.day = "None" \/ DayName(wd) = block.day)
          /\ Max2(TimeOf(slot.start), block.start)
               < Min2(TimeOf(slot.end), block.end)

BlockageRuleCharge_IgnoreHectic(slot, gd) ==
    IF slot.venue \in DOMAIN gd.venues
       /\ BlockApplies(slot,
             BlockageKey(gd.venues[slot.venue],
                         Weekday(gd.start_weekday, DateOf(slot.start))),
             Rules(gd).blockages,
             Weekday(gd.start_weekday, DateOf(slot.start)))
    THEN 1 ELSE 0

\* 3a. venue-type blockage rules, only when the week is not hectic
BlockageRuleCharge(slot, gd) ==
    IF ~Rules(gd).is_hectic_week
       /\ slot.venue \in DOMAIN gd.venues
       /\ BlockApplies(slot,
             BlockageKey(gd.venues[slot.venue],
                         Weekday(gd.start_weekday, DateOf(slot.start))),
             Rules(gd).blockages,
             Weekday(gd.start_weekday, DateOf(slot.start)))
    THEN 1 ELSE 0

\* 3b. "Venue ID invalid" (the else of `if venue_doc`, not hectic only)
VenueInvalidCharge(slot, gd) ==
    IF ~Rules(gd).is_hectic_week /\ slot.venue \notin DOMAIN gd.venues
    THEN 1 ELSE 0

\* active_slots_by_venue, flattened: (venue, start, end, context id, event id)
ActiveSlots(chrom, gd) ==
    { [venue |-> chrom[e].venue, start |-> chrom[e].start,
       end |-> chrom[e].end, ctx |-> << "pending", e >>, event |-> e]
        : e \in { x \in DOMAIN chrom : IsSlot(chrom[x]) } }
    \cup
    { [venue |-> gd.existing_schedules[i].venue_id,
       start |-> gd.existing_schedules[i].scheduled_start_time,
       end |-> gd.existing_schedules[i].scheduled_end_time,
       ctx |-> << "existing", gd.existing_schedules[i].event_id >>,
       event |-> gd.existing_schedules[i].event_id]
        : i \in 1..Len(gd.existing_schedules) }

ConflictCharge_ChromosomeOnly(chrom, ev, gd) ==
    IF \E o \in ActiveSlots(chrom, gd) :
          /\ o.ctx[1] = "pending" /\ o.ctx # << "pending", ev >>
          /\ o.venue = chrom[ev].venue
          /\ check_overlap(chrom[ev].start, chrom[ev].end, o.start, o.end)
    THEN 1 ELSE 0

\* 4. conflicts with other slots of the same venue (chromosome + existing)
ConflictCharge(chrom, ev, gd) ==
    IF \E o \in ActiveSlots(chrom, gd) :
          /\ o.ctx # << "pending", ev >>
          /\ o.venue = chrom[ev].venue
          /\ check_overlap(chrom[ev].start, chrom[ev].end, o.start, o.end)
    THEN 1 ELSE 0

ConcurrentEvents_PendingOnly(chrom, ev, gd) ==
    {ev} \cup
    { o.event : o \in { a \in ActiveSlots(chrom, gd) :
          /\ a.ctx[1] = "pending" /\ a.ctx # << "pending", ev >>
          /\ check_overlap(chrom[ev].start, chrom[ev].end, a.start, a.end) } }

\* concurrent_events_for_equip_check, as a set of event ids
ConcurrentEvents(chrom, ev, gd) ==
    {ev} \cup
    { o.event : o \in { a \in ActiveSlots(chrom, gd) :
          /\ a.ctx # << "pending", ev >>
          /\ check_overlap(chrom[ev].start, chrom[ev].end, a.start, a.end) } }

\* requests_this_slot[equip_name]
RequestedQty(evs, gd, nm) ==
    SumOver(evs \cap DOMAIN gd.equipment_requests_by_event,
            [c \in evs \cap DOMAIN gd.equipment_requests_by_event |->
                SumQty(gd.equipment_requests_by_event[c],
                       gd.equipment_id_to_name, nm)])

\* names that occur as keys of requests_this_slot
RequestedNames(evs, gd) ==
    UNION { { gd.equipment_id_to_name[r.equipment_id_str] :
                r \in { q \in SeqRange(gd.equipment_requests_by_event[c]) :
                          q.equipment_id_str \in DOMAIN gd.equipment_id_to_name } }
            : c \in evs \cap DOMAIN gd.equipment_requests_by_event }

EquipmentCharge_OthersOnly(chrom, ev, gd) ==
    IF \E nm \in RequestedNames(ConcurrentEvents(chrom, ev, gd) \ {ev}, gd) :
          \/ nm \notin DOMAIN gd.equipment_counts
          \/ RequestedQty(ConcurrentEvents(chrom, ev, gd) \ {ev}, gd, nm)
                > gd.equipment_counts[nm]
    THEN 1 ELSE 0

\* 5. equipment: the summed demand of the concurrent events against the
\* inventory count (one increment, then break)
EquipmentCharge(chrom, ev, gd) ==
    IF \E nm \in RequestedNames(ConcurrentEvents(chrom, ev, gd), gd) :
          \/ nm \notin DOMAIN gd.equipment_counts
          \/ RequestedQty(ConcurrentEvents(chrom, ev, gd), gd, nm)
                > gd.equipment_counts[nm]
    THEN 1 ELSE 0

\* the charges of one scheduled event, check by check
EventCharges(chrom, ev, gd) ==
    IF ev \notin DOMAIN gd.pending_events
    THEN [missing |-> 1, bounds |-> 0, general |-> 0, blockage |-> 0,
          venue_invalid |-> 0, conflict |-> 0, equipment |-> 0]
    ELSE [missing |-> 0,
          bounds |-> TimeBoundsCharge(chrom[ev], gd),
          general |-> GeneralCharge(chrom[ev], gd),
          blockage |-> BlockageRuleCharge(chrom[ev], gd),
          venue_invalid |-> VenueInvalidCharge(chrom[ev], gd),
          conflict |-> ConflictCharge(chrom, ev, gd),
          equipment |-> EquipmentCharge(chrom, ev, gd)]

NoCharges ==
    [missing |-> 0, bounds |-> 0, general |-> 0, blockage |-> 0,
     venue_invalid |-> 0, conflict |-> 0, equipment |-> 0]

\* current_event_violations
ChargeTotal(c) ==
    c.missing + c.bounds + c.general + c.blockage + c.venue_invalid
      + c.conflict + c.equipment

\* ------------------------------------------------------------------------
\* calculate_fitness: soft score of one event without hard violations,
\* in tenths of a point
\* ------------------------------------------------------------------------
\* parse_date_string, on date strings kept in structured form: a single day
\* ("Aug 21"), a range ("Oct 14 - 19") or an unrecognised string.  Days are
\* offsets from target_start_date.
parse_date_string(ds) ==
    CASE ds.kind = "single" -> { ds.a }
      [] ds.kind = "range"  -> IF ds.b < ds.a THEN {} ELSE ds.a .. ds.b
      [] OTHER -> {}

MinOf(S) == CHOOSE x \in S : \A y \in S : x <= y
MaxOf(S) == CHOOSE x \in S : \A y \in S : x >= y

VenuePrefScore(slot, event, prefs, w) ==
    IF event.requested_venue_id # "None" /\ slot.venue = event.requested_venue_id
    THEN w.venue_preference_match * 10
    ELSE IF \E i \in 1..Len(prefs) :
               prefs[i].preferred_venue_id # "None"
               /\ slot.venue = prefs[i].preferred_venue_id
         THEN w.venue_preference_match * 8
         ELSE 0

\* date/time match against a (date, start, end) target, before the 0.8
MatchScore(slot, d, s, e, w) ==
    IF d # NoneDT /\ DateOf(d) = DateOf(slot.start)
    THEN w.date_match * 5
         + (IF s # NoneDT /\ e # NoneDT
               /\ check_overlap(slot.start, slot.end, s, e)
            THEN w.timeslot_match * 5 ELSE 0)
    ELSE 0

RECURSIVE PrefFold(_, _, _, _)
\* datetime_match_score = max(datetime_match_score, current_pref_score * 0.8)
PrefFold(acc, slot, prefs, w) ==
    IF prefs = << >> THEN acc
    ELSE LET p == Head(prefs)
             cur == MatchScore(slot, p.preferred_date,
                               p.preferred_time_slot_start,
                               p.preferred_time_slot_end, w)
         IN  PrefFold(Max2(acc, (cur * 8) \div 10), slot, Tail(prefs), w)

DatetimeMatchScore(slot, event, prefs, w) ==
    LET req == MatchScore(slot, event.requested_date,
                          event.requested_time_start,
                          event.requested_time_end, w)
    IN  IF req < (w.date_match + w.timeslot_match) * 10
        THEN PrefFold(req, slot, prefs, w)
        ELSE req

NoCalendarRef == [present |-> FALSE, hectic_periods |-> << >>]

\* ga_data.get("_calendar_data_ref", {}).get('hectic_periods', [])
HecticPeriodsRef(gd) ==
    IF gd.calendar_data_ref.present THEN gd.calendar_data_ref.hectic_periods
    ELSE << >>

HecticBonus(event, gd, w) ==
    IF event.requested_date # NoneDT /\ Rules(gd).is_hectic_week
       /\ \E i \in 1..Len(HecticPeriodsRef(gd)) :
             LET ds == parse_date_string(HecticPeriodsRef(gd)[i].date) IN
             /\ ds # {}
             /\ MinOf(ds) <= DateOf(event.requested_date)
             /\ DateOf(event.requested_date) <= MaxOf(ds)
    THEN w.hectic_week_priority_bonus * 10
    ELSE 0

\* capacity_fit_penalty * (1 + over_capacity / max(1, capacity))
CapacityPenalty(slot, event, gd, w) ==
    IF slot.venue \in DOMAIN gd.venues
       /\ gd.venues[slot.venue].occupancy >= 0
       /\ event.estimated_attendees >= 0
       /\ event.estimated_attendees > gd.venues[slot.venue].occupancy
    THEN LET cap == gd.venues[slot.venue].occupancy
             over == event.estimated_attendees - cap
         IN  0 - (((0 - w.capacity_fit_penalty) * 10 * (Max2(1, cap) + over))
                    \div Max2(1, cap))
    ELSE 0

PrefsOf(ev, gd) ==
    IF ev \in DOMAIN gd.preferences THEN gd.preferences[ev] ELSE << >>

\* current_event_score
EventScore(chrom, ev, gd, w) ==
    w.base_score_multiplier * 10
    + VenuePrefScore(chrom[ev], gd.pending_events[ev], PrefsOf(ev, gd), w)
    + DatetimeMatchScore(chrom[ev], gd.pending_events[ev], PrefsOf(ev, gd), w)
    + HecticBonus(gd.pending_events[ev], gd, w)
    + CapacityPenalty(chrom[ev], gd.pending_events[ev], gd, w)

\* ------------------------------------------------------------------------
\* calculate_fitness
\* ------------------------------------------------------------------------
\* chromosome.items(): a dict iterates in insertion order, and every
\* chromosome is filled in the order of ga_data["pending_events"]
ScheduledInOrder(chrom, gd) ==
    LET Sched(e) == e \in DOMAIN chrom /\ IsSlot(chrom[e])
    IN  SelectSeq(gd.pending_order, Sched)

IsClean(chrom, ev, gd) == ChargeTotal(EventCharges(chrom, ev, gd)) = 0

\* `if venue_doc:` in the capacity penalty reads a local that is assigned
\* only inside `if not is_hectic_week:`; in a hectic week the first event
\* that reaches the soft scoring raises UnboundLocalError
FitnessRaises(chrom, gd) ==
    /\ Rules(gd).is_hectic_week
    /\ \E i \in 1..Len(ScheduledInOrder(chrom, gd)) :
          IsClean(chrom, ScheduledInOrder(chrom, gd)[i], gd)

\* number of scheduled events the loop gets to
ProcessedCount(chrom, gd) ==
    LET sched == ScheduledInOrder(chrom, gd)
    IN  IF FitnessRaises(chrom, gd)
        THEN CHOOSE i \in 1..Len(sched) :
                /\ IsClean(chrom, sched[i], gd)
                /\ \A j \in 1..(i - 1) : ~IsClean(chrom, sched[j], gd)
        ELSE Len(sched)

FinalFitness_FlatPenalty(soft, viol, w) ==
    soft - (IF viol > 0 THEN 1 ELSE 0) * w.hard_constraint_penalty * 10

\* final_fitness, in tenths of a point
FinalFitness(soft, viol, w) == soft - viol * w.hard_constraint_penalty * 10

calculate_fitness(chrom, gd, w) ==
    LET sched == ScheduledInOrder(chrom, gd)
        processed == { sched[i] : i \in 1..ProcessedCount(chrom, gd) }
        charges == [e \in DOMAIN chrom |->
                       IF e \in processed THEN EventCharges(chrom, e, gd)
                       ELSE NoCharges]
        viol == SumOver(processed, [e \in processed |-> ChargeTotal(charges[e])])
        clean == { e \in processed : ChargeTotal(charges[e]) = 0 }
        soft == SumOver(clean, [e \in clean |-> EventScore(chrom, e, gd, w)])
    IN  IF FitnessRaises(chrom, gd)
        THEN [status |-> "raised", score |-> 0, violations |-> 0,
              charges |-> charges]
        ELSE [status |-> "returned",
              score |-> FinalFitness(soft, viol, w),
              violations |-> viol, charges |-> charges]

NotEvaluated ==
    [status |-> "none", score |-> 0, violations |-> 0, charges |-> << >>]

\* ------------------------------------------------------------------------
\* process_weekly_constraints
\* ------------------------------------------------------------------------
RECURSIVE SortedSeqOfSet(_)
\* sorted(list(set(parsed_dates)))
SortedSeqOfSet(S) ==
    IF S = {} THEN << >>
    ELSE << MinOf(S) >> \o SortedSeqOfSet(S \ {MinOf(S)})

\* position of sq[i] in the stable order by start: behind the elements that
\* start earlier and behind the earlier elements that start at the same time
RankByStart(sq, i) ==
    1 + Cardinality({ j \in 1..Len(sq) :
                        \/ sq[j].start < sq[i].start
                        \/ (sq[j].start = sq[i].start /\ j < i) })

\* sorted(unavailable_general_slots, key=lambda x: x['start'])
SortByStart(sq) ==
    [k \in 1..Len(sq) |-> sq[CHOOSE i \in 1..Len(sq) : RankByStart(sq, i) = k]]

\* a curfew that stops at midnight
CurfewSlot_UntilMidnight(d) ==
    [start |-> At(d, HM(22, 0)), end |-> At(d + 1, 0), reason |-> "Night Curfew"]

\* the nightly curfew of day d and a full-day block of day d
CurfewSlot(d) ==
    [start |-> At(d, HM(22, 0)), end |-> At(d + 1, HM(6, 0)), reason |-> "Night Curfew"]
FullDaySlot(d, why) ==
    [start |-> At(d, 0), end |-> At(d + 1, 0), reason |-> why]

InWeek(d) == 0 <= d /\ d < WeekDays

\* step 2: the week overlaps the span of some hectic period
IsHecticWeek(calendar_data) ==
    \E i \in 1..Len(calendar_data.hectic_periods) :
        LET ds == parse_date_string(calendar_data.hectic_periods[i].date) IN
        /\ ds # {}
        /\ 0 <= MaxOf(ds)
        /\ WeekDays > MinOf(ds)

RECURSIVE DaySlots(_, _)
\* one full-day slot per date of the sorted list that lies in the week
DaySlots(dates, why) ==
    IF dates = << >> THEN << >>
    ELSE (IF InWeek(Head(dates)) THEN << FullDaySlot(Head(dates), why) >>
          ELSE << >>) \o DaySlots(Tail(dates), why)

RECURSIVE CategorySlots(_, _)
\* step 3 for the entries of one category; the reason is the entry's
\* "event" name, or the category's title when the entry has none
CategorySlots(entries, title) ==
    IF entries = << >> THEN << >>
    ELSE DaySlots(SortedSeqOfSet(parse_date_string(Head(entries).date)),
                  IF Head(entries).event # "None" THEN Head(entries).event
                  ELSE title)
         \o CategorySlots(Tail(entries), title)

\* all_blocked_dates
AllBlockedDates(calendar_data) ==
    LET ud == calendar_data.unavailable_dates
        all == ud.national_holidays \o ud.school_holidays_breaks
                 \o ud.examination_periods
    IN  { d \in UNION { parse_date_string(all[i].date) : i \in 1..Len(all) } :
            InWeek(d) }

\* exam_period_starts, as a set
ExamStarts(calendar_data) ==
    LET ex == calendar_data.unavailable_dates.examination_periods
    IN  { MinOf(parse_date_string(ex[i].date)) :
            i \in { j \in 1..Len(ex) : parse_date_string(ex[j].date) # {} } }

RECURSIVE PreExamDays(_, _)
\* step 4: the 7 days before each exam start, in the order of the loops
PreExamDays(starts, blocked) ==
    IF starts = << >> THEN << >>
    ELSE LET s == Head(starts)
             Keep(d) == InWeek(d) /\ d \notin blocked
         IN  SelectSeq([k \in 1..7 |-> s - 8 + k], Keep)
               \o PreExamDays(Tail(starts), blocked)

RECURSIVE UniversalSlots(_, _, _)
\* step 5: Sunday blockage (unless the date is already blocked) and the
\* nightly curfew of every day of the week
UniversalSlots(d, sw, blocked) ==
    IF d >= WeekDays THEN << >>
    ELSE (IF Weekday(sw, d) = 6 /\ d \notin blocked
          THEN << FullDaySlot(d, "Sunday Blockage") >> ELSE << >>)
         \o << CurfewSlot(d) >>
         \o UniversalSlots(d + 1, sw, blocked)

\* step 6: the standard venue blockage table; ranges that do not parse are
\* skipped and a key without a parsed range is left out
ParsedBlockages(table) ==
    LET Ok(tr) == tr.valid
        Parsed(k) == SelectSeq(table[k], Ok)
    IN  [k \in { x \in DOMAIN table : Parsed(x) # << >> } |->
            [i \in 1..Len(Parsed(k)) |->
                [start |-> Parsed(k)[i].start_time,
                 end |-> Parsed(k)[i].end_time,
                 day |-> Parsed(k)[i].day]]]

NoBlockages == [k \in {} |-> << >>]

process_weekly_constraints(sw, calendar_data) ==
    LET ud == calendar_data.unavailable_dates
        blocked == AllBlockedDates(calendar_data)
        pre == PreExamDays(SortedSeqOfSet(ExamStarts(calendar_data)), blocked)
        slots == CategorySlots(ud.national_holidays, "National Holidays")
                   \o CategorySlots(ud.school_holidays_breaks, "School Holidays Breaks")
                   \o CategorySlots(ud.examination_periods, "Examination Periods")
                   \o [i \in 1..Len(pre) |->
                          FullDaySlot(pre[i], "Pre-Exam Week Blockage")]
                   \o UniversalSlots(0, sw, blocked)
    IN  [unavailable_general_slots |-> SortByStart(slots),
         venue_specific_rules |->
            [is_hectic_week |-> IsHecticWeek(calendar_data),
             blockages |-> IF IsHecticWeek(calendar_data) THEN NoBlockages
                           ELSE ParsedBlockages(calendar_data.standard_venue_blockages)]]

\* ------------------------------------------------------------------------
\* fetch_ga_data
\* ------------------------------------------------------------------------
\* collection.find(filter): a cursor over the matching documents
Find(matching) == [docs |-> matching, alive |-> TRUE]
\* cursor.to_list(length=None): everything the cursor still holds; a
\* cursor that has been read to its end is no longer alive and yields []
ToList(cursor) == IF cursor.alive THEN cursor.docs ELSE << >>
AfterToList(cursor) == [cursor EXCEPT !.alive = FALSE]

WeekStartDT == At(0, 0)
WeekEndDT == At(WeekDays, 0)

RECURSIVE IdsOf(_)
IdsOf(docs) ==
    IF docs = << >> THEN << >> ELSE << Head(docs).id >> \o IdsOf(Tail(docs))

DocById(docs, id) == docs[CHOOSE i \in 1..Len(docs) : docs[i].id = id]

\* 1. pending events whose requested_date lies in the week
PendingEventsOf(db0) ==
    LET Match(e) == /\ e.approval_status = "Pending"
                    /\ e.requested_date # NoneDT
                    /\ e.requested_date >= WeekStartDT
                    /\ e.requested_date < WeekEndDT
    IN  ToList(Find(SelectSeq(db0.events, Match)))

\* 2. the stored non-optimized schedules of the week: the cursor is read
\* with to_list twice, and the list that is kept is built from the second
\* read (raw_existing_schedules)
ExistingSchedulesOf(db0) ==
    LET Match(sc) == /\ ~sc.is_optimized
                     /\ sc.scheduled_start_time < WeekEndDT
                     /\ sc.scheduled_end_time >= WeekStartDT
        cursor == Find(SelectSeq(db0.schedules, Match))
        first == ToList(cursor)
        raw == ToList(AfterToList(cursor))
        Valid(sc) == sc.scheduled_start_time # NoneDT
                       /\ sc.scheduled_end_time # NoneDT
        kept == SelectSeq(raw, Valid)
    IN  [i \in 1..Len(kept) |->
            [venue_id |-> kept[i].venue_id,
             scheduled_start_time |-> kept[i].scheduled_start_time,
             scheduled_end_time |-> kept[i].scheduled_end_time,
             event_id |-> kept[i].event_id]]

fetch_ga_data(sw, db0, week_constraints) ==
    LET pend == PendingEventsOf(db0)
        pids == SeqRange(IdsOf(pend))
        existing == ExistingSchedulesOf(db0)
        named == { i \in DOMAIN db0.equipment : db0.equipment[i] # "None" }
        names == { db0.equipment[i] : i \in named }
        relevant == pids \cup { existing[i].event_id : i \in 1..Len(existing) }
        ReqOf(e) == LET Mine(r) == r.event_id = e
                        mine == SelectSeq(db0.event_equipment, Mine)
                    IN  [i \in 1..Len(mine) |->
                            [equipment_id_str |-> mine[i].equipment_id,
                             quantity |-> mine[i].quantity]]
        PrefOf(e) == LET Mine(q) == q.event_id = e
                         mine == SelectSeq(db0.preferences, Mine)
                     IN  [i \in 1..Len(mine) |->
                            [preferred_venue_id |-> mine[i].preferred_venue_id,
                             preferred_date |-> mine[i].preferred_date,
                             preferred_time_slot_start |-> mine[i].preferred_time_slot_start,
                             preferred_time_slot_end |-> mine[i].preferred_time_slot_end]]
    IN  [pending_events |->
            [e \in pids |->
                [requested_venue_id |-> DocById(pend, e).requested_venue_id,
                 requested_date |-> DocById(pend, e).requested_date,
                 requested_time_start |-> DocById(pend, e).requested_time_start,
                 requested_time_end |-> DocById(pend, e).requested_time_end,
                 estimated_attendees |-> DocById(pend, e).estimated_attendees,
                 organization_id |-> DocById(pend, e).organization_id]],
         pending_order |-> IdsOf(pend),
         existing_schedules |-> existing,
         venues |-> db0.venues,
         equipment_counts |->
            [n \in names |-> Cardinality({ i \in named : db0.equipment[i] = n })],
         equipment_id_to_name |-> [i \in named |-> db0.equipment[i]],
         equipment_requests_by_event |->
            [e \in { x \in relevant : ReqOf(x) # << >> } |-> ReqOf(e)],
         preferences |-> [e \in { x \in pids : PrefOf(x) # << >> } |-> PrefOf(e)],
         week_constraints |-> week_constraints,
         start_weekday |-> sw,
         calendar_data_ref |-> NoCalendarRef]

\* ------------------------------------------------------------------------
\* initialize_population, crossover, mutate
\* ------------------------------------------------------------------------
DefaultDuration == 90       \* timedelta(hours=1.5)

\* duration from the request, or the default
DurationOf(event) ==
    IF event.requested_time_start # NoneDT /\ event.requested_time_end # NoneDT
       /\ event.requested_time_end - event.requested_time_start > 0
    THEN event.requested_time_end - event.requested_time_start
    ELSE DefaultDuration

StartInCurfew(st) == HM(22, 0) <= TimeOf(st) \/ TimeOf(st) < HM(6, 0)

\* the two end-time checks of the generators: "spans past 6am next day"
\* and "ends after 22:00" (ending at 00:00 is let through)
EndChecksPass(st, en) ==
    /\ ~(DateOf(en) > DateOf(st) /\ TimeOf(en) > HM(6, 0))
    /\ ~(TimeOf(en) > HM(22, 0) /\ TimeOf(en) # 0)

\* random day (re-drawn while it is a Sunday), random hour and minute
RandomStarts(gd, r) ==
    { At(dd, HM(h, m)) :
        dd \in { x \in r.days : Weekday(gd.start_weekday, x) # 6 },
        h \in r.hours, m \in r.minutes }

\* the requested start can be used: requested_date lies in the week, is not
\* a Sunday, and the requested start is outside the curfew hours
RequestedStartUsable(event, gd) ==
    /\ event.requested_date # NoneDT
    /\ event.requested_time_start # NoneDT
    /\ InWeek(DateOf(event.requested_date))
    /\ Weekday(gd.start_weekday, DateOf(event.requested_date)) # 6
    /\ ~StartInCurfew(event.requested_time_start)

\* what initialize_population can store for one event: None (not tried, no
\* non-Sunday day drawn, or an end check failed) or a slot
InitSlotOutcomes(ev, gd, r) ==
    LET event == gd.pending_events[ev]
        starts == RandomStarts(gd, r)
                    \cup (IF RequestedStartUsable(event, gd)
                          THEN { event.requested_time_start } ELSE {})
    IN  {NoSlot} \cup
        { Slot(v, st, st + DurationOf(event)) :
            v \in DOMAIN gd.venues,
            st \in { x \in starts : EndChecksPass(x, x + DurationOf(event)) } }

\* what mutate can store for an event it mutates: a new slot, or None when
\* the attempts ran out
MutateSlotOutcomes(ev, gd, r) ==
    LET dur == IF ev \in DOMAIN gd.pending_events
               THEN DurationOf(gd.pending_events[ev]) ELSE DefaultDuration
    IN  {NoSlot} \cup
        { Slot(v, st, st + dur) :
            v \in DOMAIN gd.venues,
            st \in { x \in RandomStarts(gd, r) :
                       EndChecksPass(x, x + dur) /\ ~StartInCurfew(x) } }

ChromosomeKeys_WithRequests(gd) ==
    SeqRange(gd.pending_order) \cap DOMAIN gd.equipment_requests_by_event

\* the ids the generators iterate over: str(e["_id"]) of the pending events
ChromosomeKeys(gd) == SeqRange(gd.pending_order)

\* the chromosomes initialize_population can build for one individual
InitChromosomes(gd, r) ==
    LET keys == ChromosomeKeys(gd)
        all == UNION { InitSlotOutcomes(e, gd, r) : e \in keys }
    IN  { c \in [keys -> all] : \A e \in keys : c[e] \in InitSlotOutcomes(e, gd, r) }

\* initialize_population: no venues gives [], no pending events gives
\* `size` empty chromosomes
initialize_population(size, gd, r) ==
    IF DOMAIN gd.venues = {} THEN { << >> }
    ELSE IF gd.pending_order = << >> THEN { [i \in 1..size |-> NoChromosome] }
    ELSE [1..size -> InitChromosomes(gd, r)]

\* dict.get(key): None for a missing key
Get(chrom, e) == IF e \in DOMAIN chrom THEN chrom[e] ELSE NoSlot

\* random.random() < rate and its negation, for a rate in percent
MayBeBelow(rate) == rate > 0
MayBeAtLeast(rate) == rate < 100

\* both children take the assignment of parent1
crossover_FirstParentOnly(parent1, parent2, gd, rate) ==
    (IF MayBeAtLeast(rate) THEN { << parent1, parent2 >> } ELSE {})
    \cup
    (IF MayBeBelow(rate)
     THEN { << [e \in ChromosomeKeys(gd) |->
                  IF e \in first THEN Get(parent1, e) ELSE Get(parent2, e)],
               [e \in ChromosomeKeys(gd) |-> Get(parent1, e)] >>
            : first \in SUBSET ChromosomeKeys(gd) }
     ELSE {})

\* crossover: the pairs of children it can return
crossover(parent1, parent2, gd, rate) ==
    (IF MayBeAtLeast(rate) THEN { << parent1, parent2 >> } ELSE {})
    \cup
    (IF MayBeBelow(rate)
     THEN { << [e \in ChromosomeKeys(gd) |->
                  IF e \in first THEN Get(parent1, e) ELSE Get(parent2, e)],
               [e \in ChromosomeKeys(gd) |->
                  IF e \in first THEN Get(parent2, e) ELSE Get(parent1, e)] >>
            : first \in SUBSET ChromosomeKeys(gd) }
     ELSE {})

\* the children are built in the parents' own dicts
parents_after_crossover_InPlace(parent1, parent2, ch) == << ch[1], ch[2] >>

\* what the two dicts passed to crossover hold when it returns: crossover
\* only reads them (parent.copy(), parent.get) and fills new dicts
parents_after_crossover(parent1, parent2, ch) == << parent1, parent2 >>

\* what the dict passed to mutate holds when it returns: mutate writes to
\* chromosome.copy() only
chromosome_after_mutate(chrom, m) == chrom

\* mutate: the chromosomes it can return
mutate(chrom, gd, rate, r) ==
    IF DOMAIN gd.venues = {} THEN { chrom }
    ELSE LET ids == SeqRange(gd.pending_order)
             all == UNION { MutateSlotOutcomes(e, gd, r) : e \in ids }
         IN  UNION {
               { [e \in DOMAIN chrom \cup hit |->
                     IF e \in hit THEN f[e] ELSE chrom[e]] :
                 f \in { g \in [hit -> all] :
                           \A e \in hit : g[e] \in MutateSlotOutcomes(e, gd, r) } }
               : hit \in { h \in SUBSET ids :
                             /\ (h # {} => MayBeBelow(rate))
                             /\ (h # ids => MayBeAtLeast(rate)) } }

\* ------------------------------------------------------------------------
\* Run data used by the specifications
\* ------------------------------------------------------------------------
MaxQty == 3        \* largest quantity of one equipment request

\* FitnessWeights defaults
DefaultWeights ==
    [venue_preference_match |-> 50, date_match |-> 20, timeslot_match |-> 30,
     capacity_fit_penalty |-> 0 - 10, hectic_week_priority_bonus |-> 100,
     base_score_multiplier |-> 10, hard_constraint_penalty |-> 10000]

\* weight configurations that pass the validation of FitnessWeights: the
\* defaults, and a small penalty next to large bonuses
FitWeights ==
    { DefaultWeights,
      [venue_preference_match |-> 500, date_match |-> 200,
       timeslot_match |-> 300, capacity_fit_penalty |-> 0 - 100,
       hectic_week_priority_bonus |-> 1, base_score_multiplier |-> 1,
       hard_constraint_penalty |-> 1] }

EventIds == {"e1", "e2"}
VenueDocs ==
    [v \in {"v1", "v2"} |->
        IF v = "v1"
        THEN [type_has_classroom |-> TRUE, name_has_uls |-> FALSE, occupancy |-> 50]
        ELSE [type_has_classroom |-> FALSE, name_has_uls |-> TRUE, occupancy |-> 100]]

\* two pending events asking for the same venue at the same time
PendingDocs(att2) ==
    [e \in EventIds |->
        [requested_venue_id |-> "v1",
         requested_date |-> At(0, 0),
         requested_time_start |-> At(0, HM(9, 0)),
         requested_time_end |-> At(0, HM(11, 0)),
         estimated_attendees |-> IF e = "e1" THEN 40 ELSE att2,
         organization_id |-> "org1"]]

StandardBlockages ==
    [k \in { << "Classroom", "weekday" >>, << "ULS", "weekday" >> } |->
        IF k[1] = "Classroom"
        THEN << [start |-> HM(10, 0), end |-> HM(12, 0), day |-> "None"] >>
        ELSE << [start |-> HM(9, 0), end |-> HM(10, 0), day |-> "Tuesday"] >>]

\* slots offered to the evaluator: any (venue, start, end) is a legal
\* argument of calculate_fitness
FitIntervals ==
    { << At(0, HM(9, 0)), At(0, HM(11, 0)) >>,
      << At(0, HM(11, 0)), At(0, HM(12, 30)) >>,
      << At(0, HM(13, 0)), At(0, HM(14, 0)) >>,
      << At(0, HM(15, 0)), At(0, HM(16, 0)) >>,
      << At(0, HM(20, 0)), At(1, HM(1, 0)) >> }
FitSlots ==
    { Slot(v, iv[1], iv[2]) : v \in {"v1", "v2"}, iv \in FitIntervals }
      \cup {NoSlot}

ExistingChoices ==
    { << >>,
      << [venue_id |-> "v1", scheduled_start_time |-> At(0, HM(13, 30)),
          scheduled_end_time |-> At(0, HM(15, 0)), event_id |-> "x1"] >>,
      << [venue_id |-> "v1", scheduled_start_time |-> At(0, HM(14, 0)),
          scheduled_end_time |-> At(0, HM(15, 0)), event_id |-> "x1"] >>,
      << [venue_id |-> "v1", scheduled_start_time |-> At(0, HM(14, 0)),
          scheduled_end_time |-> At(0, HM(15, 0)), event_id |-> "x1"],
         [venue_id |-> "v2", scheduled_start_time |-> At(0, HM(14, 0)),
          scheduled_end_time |-> At(0, HM(15, 0)), event_id |-> "x2"] >> }

\* inventory: two projectors (ids q1, q2); id q9 is not in the inventory
FitGaData(hectic, existing, sw, qty, order) ==
    [pending_events |-> PendingDocs(120),
     pending_order |-> order,
     existing_schedules |-> existing,
     venues |-> VenueDocs,
     equipment_counts |-> [n \in {"projector"} |-> 2],
     equipment_id_to_name |-> [i \in {"q1", "q2"} |-> "projector"],
     equipment_requests_by_event |->
        [e \in {"e1", "x1", "x2"} |->
            IF e = "e1"
            THEN << [equipment_id_str |-> "q1", quantity |-> qty] >>
            ELSE IF e = "x2"
            THEN << [equipment_id_str |-> "q1", quantity |-> 2] >>
            ELSE << [equipment_id_str |-> "q2", quantity |-> 1],
                    [equipment_id_str |-> "q9", quantity |-> 1] >>],
     preferences |-> [e \in {"e2"} |->
        << [preferred_venue_id |-> "v2", preferred_date |-> At(0, 0),
            preferred_time_slot_start |-> At(0, HM(13, 0)),
            preferred_time_slot_end |-> At(0, HM(14, 0))] >>],
     week_constraints |->
        [unavailable_general_slots |->
            << CurfewSlot(0), CurfewSlot(1) >>,
         venue_specific_rules |->
            [is_hectic_week |-> hectic, blockages |-> StandardBlockages]],
     start_weekday |-> sw,
     calendar_data_ref |-> NoCalendarRef]

\* values of the variables an operation does not use
NoRequest == [start_weekday |-> 0]
NoCalendar ==
    [readable |-> TRUE, wellformed |-> TRUE,
     hectic_periods |-> << >>,
     unavailable_dates |-> [national_holidays |-> << >>,
                            school_holidays_breaks |-> << >>,
                            examination_periods |-> << >>],
     standard_venue_blockages |-> NoBlockages]
NoDb ==
    [reachable |-> TRUE,
     events |-> << >>, schedules |-> << >>, venues |-> [v \in {} |-> 0],
     equipment |-> [i \in {} |-> "None"], event_equipment |-> << >>,
     preferences |-> << >>]
NoGaData == fetch_ga_data(0, NoDb, process_weekly_constraints(0, NoCalendar))

NoRng == [days |-> {}, hours |-> {}, minutes |-> {}]

\* best_fitness_overall = -inf, best_chromosome_overall = None,
\* best_violation_count = inf
NoBest ==
    [defined |-> FALSE, chromosome |-> NoChromosome, score |-> 0,
     violations |-> 0]

\* report_data as optimize_weekly_schedule initializes it; None is the
\* empty sequence, a number x is << x >>
InitialReport ==
    [input_event_count |-> 0, final_fitness |-> << >>,
     final_violations |-> << >>, is_hectic_week |-> FALSE,
     active_general_constraints |-> << >>,
     active_venue_blockages |-> NoBlockages,
     unscheduled_event_analysis |-> << >>,
     summary |-> "Optimization did not complete fully."]

NoRet ==
    [returned |-> FALSE, schedule |-> << >>, unscheduled |-> << >>,
     unscheduled_kind |-> "ids", report |-> InitialReport]

optvars == << best, generation, ret >>

\* no helper call in progress
NoCall == [args |-> << >>, result |-> << >>]

vars == << pc, request, calendar_file, db, ga_data, weights, chromosome, fit,
           rng, population, best, generation, ret, call, evaluated >>

\* ------------------------------------------------------------------------
\* SpecFit: calculate_fitness applied to bounded inputs
\* ------------------------------------------------------------------------
InitFit ==
    /\ \E hectic \in BOOLEAN, existing \in ExistingChoices, sw \in {0, 1},
          qty \in 1..MaxQty,
          order \in { << "e1", "e2" >>, << "e2", "e1" >> } :
          ga_data = FitGaData(hectic, existing, sw, qty, order)
    /\ weights \in FitWeights
    /\ chromosome \in [EventIds -> FitSlots]
    /\ fit = NotEvaluated
    /\ pc = "calculate_fitness"
    /\ request = NoRequest /\ calendar_file = NoCalendar /\ db = NoDb
    /\ rng = NoRng /\ population = << >>
    /\ call = NoCall /\ evaluated = {} /\ best = NoBest /\ generation = 0 /\ ret = NoRet

Evaluate ==
    /\ pc = "calculate_fitness"
    /\ fit' = calculate_fitness(chromosome, ga_data, weights)
    /\ pc' = "evaluated"
    /\ UNCHANGED << call, evaluated, request, calendar_file, db, ga_data, weights, chromosome,
                    rng, population, optvars >>

NextFit == Evaluate
SpecFit == InitFit /\ [][NextFit]_vars

\* ------------------------------------------------------------------------
\* SpecFetch: fetch_ga_data applied to bounded database contents
\* ------------------------------------------------------------------------
EventDoc(id, status, rdate, s, e, att) ==
    [id |-> id, approval_status |-> status, requested_venue_id |-> "v1",
     requested_date |-> rdate, requested_time_start |-> s,
     requested_time_end |-> e, estimated_attendees |-> att,
     organization_id |-> "org1"]

ScheduleDoc(v, s, e, ev, opt) ==
    [venue_id |-> v, scheduled_start_time |-> s, scheduled_end_time |-> e,
     event_id |-> ev, is_optimized |-> opt]

\* stored schedules: one inside the week, one of the week before, one
\* written by the optimizer, one ending exactly when the week starts
StoredSchedules ==
    << ScheduleDoc("v1", At(0, HM(13, 30)), At(0, HM(15, 0)), "x1", FALSE),
       ScheduleDoc("v1", At(0 - 3, HM(9, 0)), At(0 - 3, HM(10, 0)), "x2", FALSE),
       ScheduleDoc("v2", At(1, HM(9, 0)), At(1, HM(10, 0)), "x3", TRUE),
       ScheduleDoc("v2", At(0 - 1, HM(20, 0)), At(0, 0), "x4", FALSE) >>

SubSeqs(sq) ==
    { LET In(x) == x \in keep IN SelectSeq(sq, In) : keep \in SUBSET SeqRange(sq) }

FetchDb(status1, status2, scheds) ==
    [reachable |-> TRUE,
     events |->
        << EventDoc("e1", status1, At(0, 0), At(0, HM(9, 0)), At(0, HM(11, 0)), 40),
           EventDoc("e2", status2, At(2, 0), At(2, HM(9, 0)), At(2, HM(14, 0)), 120),
           EventDoc("e3", "Pending", At(9, 0), At(9, HM(9, 0)), At(9, HM(10, 0)), 10) >>,
     schedules |-> scheds,
     venues |-> VenueDocs,
     equipment |-> [i \in {"q1", "q2", "q3"} |->
                      IF i = "q3" THEN "None" ELSE "projector"],
     event_equipment |->
        << [event_id |-> "e1", equipment_id |-> "q1", quantity |-> 1],
           [event_id |-> "x1", equipment_id |-> "q2", quantity |-> 1] >>,
     preferences |->
        << [event_id |-> "e2", preferred_venue_id |-> "v2",
            preferred_date |-> At(0, 0),
            preferred_time_slot_start |-> At(0, HM(13, 0)),
            preferred_time_slot_end |-> At(0, HM(14, 0))] >>]

EventStatuses == {"Pending", "Approved", "Rejected"}

InitFetch ==
    /\ pc = "fetch_ga_data"
    /\ \E sw \in {0, 3} : request = [start_weekday |-> sw]
    /\ calendar_file = NoCalendar
    /\ \E s1 \in EventStatuses, s2 \in EventStatuses,
          scheds \in SubSeqs(StoredSchedules) :
          db = FetchDb(s1, s2, scheds)
    /\ ga_data = NoGaData
    /\ weights = DefaultWeights
    /\ chromosome = NoChromosome
    /\ fit = NotEvaluated
    /\ rng = NoRng /\ population = << >>
    /\ call = NoCall /\ evaluated = {} /\ best = NoBest /\ generation = 0 /\ ret = NoRet

FetchData ==
    /\ pc = "fetch_ga_data"
    /\ ga_data' = fetch_ga_data(request.start_weekday, db,
                     process_weekly_constraints(request.start_weekday, calendar_file))
    /\ pc' = "fetched"
    /\ UNCHANGED << call, evaluated, request, calendar_file, db, weights, chromosome, fit,
                    rng, population, optvars >>

NextFetch == FetchData
SpecFetch == InitFetch /\ [][NextFetch]_vars

\* C6: the run context built by fetch_ga_data holds, in existing_schedules,
\* every stored non-optimized schedule whose interval overlaps the target
\* week.
C6_ExistingCommitmentsFetched ==
    pc = "fetched" =>
        \A i \in 1..Len(db.schedules) :
            (/\ ~db.schedules[i].is_optimized
             /\ ShareInstant(db.schedules[i].scheduled_start_time,
                             db.schedules[i].scheduled_end_time,
                             WeekStartDT, WeekEndDT))
            => \E j \in 1..Len(ga_data.existing_schedules) :
                 /\ ga_data.existing_schedules[j].event_id = db.schedules[i].event_id
                 /\ ga_data.existing_schedules[j].venue_id = db.schedules[i].venue_id
                 /\ ga_data.existing_schedules[j].scheduled_start_time
                       = db.schedules[i].scheduled_start_time
                 /\ ga_data.existing_schedules[j].scheduled_end_time
                       = db.schedules[i].scheduled_end_time

\* ------------------------------------------------------------------------
\* Properties of calculate_fitness (SpecFit)
\* ------------------------------------------------------------------------
Scheduled(chrom) == { e \in DOMAIN chrom : IsSlot(chrom[e]) }

\* C1: a chromosome for which calculate_fitness reports zero hard
\* violations has no two assignments in the same venue at overlapping
\* times, and no assignment that overlaps an existing commitment of the
\* same venue (so two events that share venue and time are never both
\* scheduled there).
C1_ZeroViolationsNoDoubleBooking ==
    (fit.status = "returned" /\ fit.violations = 0) =>
        /\ \A a, b \in Scheduled(chromosome) :
              (a # b /\ chromosome[a].venue = chromosome[b].venue)
                => ~ShareInstant(chromosome[a].start, chromosome[a].end,
                                 chromosome[b].start, chromosome[b].end)
        /\ \A a \in Scheduled(chromosome) :
              \A i \in 1..Len(ga_data.existing_schedules) :
                 ga_data.existing_schedules[i].venue_id = chromosome[a].venue
                   => ~ShareInstant(chromosome[a].start, chromosome[a].end,
                         ga_data.existing_schedules[i].scheduled_start_time,
                         ga_data.existing_schedules[i].scheduled_end_time)

\* a zero-violation result for two events placed in one venue that also
\* holds an existing commitment
C1_Witness ==
    /\ fit.status = "returned" /\ fit.violations = 0
    /\ Scheduled(chromosome) = EventIds
    /\ chromosome["e1"].venue = chromosome["e2"].venue
    /\ \E i \in 1..Len(ga_data.existing_schedules) :
          ga_data.existing_schedules[i].venue_id = chromosome["e1"].venue

\* quantity the event's own requests ask of the equipment name nm
OwnAsk(ev, gd, nm) ==
    IF ev \in DOMAIN gd.equipment_requests_by_event
    THEN SumQty(gd.equipment_requests_by_event[ev], gd.equipment_id_to_name, nm)
    ELSE 0

AsksBeyondInventory(ev, gd) ==
    \E nm \in DOMAIN gd.equipment_counts :
        OwnAsk(ev, gd, nm) > gd.equipment_counts[nm]

\* C7: an event whose own requests ask more of an equipment name than the
\* inventory holds is charged a hard violation whenever it is scheduled,
\* whatever its venue and time.
C7_OverAskAlwaysViolates ==
    fit.status = "returned" =>
        \A e \in Scheduled(chromosome) :
            AsksBeyondInventory(e, ga_data)
              => (fit.charges[e].equipment >= 1 /\ fit.violations >= 1)

\* the over-asking event is scheduled and the equipment check is the only
\* check it fails
C7_Witness ==
    /\ fit.status = "returned"
    /\ \E e \in Scheduled(chromosome) :
          /\ AsksBeyondInventory(e, ga_data)
          /\ fit.charges[e].equipment = 1
          /\ ChargeTotal(fit.charges[e]) = 1

NonHectic(gd) ==
    [gd EXCEPT !.week_constraints.venue_specific_rules.is_hectic_week = FALSE]

\* C10: an assignment that is charged a venue-type blockage violation when
\* the week is not hectic is charged none when the hectic-week flag is true
\* and all other data are the same.
C10_HecticSuppressesBlockage ==
    (pc = "evaluated" /\ Rules(ga_data).is_hectic_week) =>
        \A e \in Scheduled(chromosome) :
            BlockageRuleCharge(chromosome[e], NonHectic(ga_data)) = 1
              => fit.charges[e].blockage = 0

\* a hectic-week evaluation that returned, of an assignment the
\* non-hectic rules block
C10_Witness ==
    /\ fit.status = "returned" /\ Rules(ga_data).is_hectic_week
    /\ \E e \in Scheduled(chromosome) :
          /\ BlockageRuleCharge(chromosome[e], NonHectic(ga_data)) = 1
          /\ fit.charges[e].equipment = 1
          /\ fit.charges[e].blockage = 0

\* ------------------------------------------------------------------------
\* SpecGen: initialize_population, then crossover and mutate in any order
\* ------------------------------------------------------------------------
\* e1 asks for day 0, 09:00-11:00; the request of e2 varies
GenDb(req2) ==
    [reachable |-> TRUE,
     events |->
        << EventDoc("e1", "Pending", At(0, 0), At(0, HM(9, 0)), At(0, HM(11, 0)), 40),
           EventDoc("e2", "Pending", At(2, 0), req2[1], req2[2], 120) >>,
     schedules |-> << >>,
     venues |-> VenueDocs,
     equipment |-> [i \in {"q1", "q2"} |-> "projector"],
     event_equipment |->
        << [event_id |-> "e1", equipment_id |-> "q1", quantity |-> 1] >>,
     preferences |-> << >>]

\* requested (start, end) of e2: none (default duration), five hours,
\* half an hour late in the evening
GenRequests ==
    { << NoneDT, NoneDT >>,
      << At(2, HM(9, 0)), At(2, HM(14, 0)) >>,
      << At(2, HM(21, 0)), At(2, HM(21, 30)) >> }

GenRates == { << 15, 80 >>, << 0, 100 >>, << 100, 0 >> }

InitGen ==
    /\ pc = "initialize_population"
    /\ \E sw \in {0, 4}, rates \in GenRates :
          request = [start_weekday |-> sw, mutation_rate |-> rates[1],
                     crossover_rate |-> rates[2]]
    /\ calendar_file = NoCalendar
    /\ \E req2 \in GenRequests : db = GenDb(req2)
    /\ ga_data = fetch_ga_data(request.start_weekday, db,
                    process_weekly_constraints(request.start_weekday, calendar_file))
    /\ weights = DefaultWeights
    /\ chromosome = NoChromosome
    /\ fit = NotEvaluated
    /\ rng = [days |-> {0}, hours |-> {20}, minutes |-> {0, 45}]
    /\ population = << >>
    /\ call = NoCall /\ evaluated = {} /\ best = NoBest /\ generation = 0 /\ ret = NoRet

GenInitialize ==
    /\ pc = "initialize_population"
    /\ population' \in initialize_population(2, ga_data, rng)
    /\ pc' = "initialized"
    /\ UNCHANGED << call, evaluated, request, calendar_file, db, ga_data, weights, chromosome,
                    fit, rng, optvars >>

Bred == {"initialized", "crossed", "mutated", "crossed_mutated"}

GenCrossover ==
    /\ pc \in Bred
    /\ \E ch \in crossover(population[1], population[2], ga_data,
                            request.crossover_rate) :
          population' = << ch[1], ch[2] >>
    /\ pc' = "crossed"
    /\ UNCHANGED << call, evaluated, request, calendar_file, db, ga_data, weights, chromosome,
                    fit, rng, optvars >>

GenMutate ==
    /\ pc \in Bred
    /\ \E i \in 1..Len(population) :
          \E m \in mutate(population[i], ga_data, request.mutation_rate, rng) :
             population' = [population EXCEPT ![i] = m]
    /\ pc' = IF pc \in {"crossed", "crossed_mutated"} THEN "crossed_mutated"
             ELSE "mutated"
    /\ UNCHANGED << call, evaluated, request, calendar_file, db, ga_data, weights, chromosome,
                    fit, rng, optvars >>

NextGen == GenInitialize \/ GenCrossover \/ GenMutate
SpecGen == InitGen /\ [][NextGen]_vars

\* C5: every chromosome produced by initialize_population, crossover and
\* mutate has exactly the pending event ids of the run as its keys.
C5_KeysArePendingIds ==
    pc \in Bred =>
        \A i \in 1..Len(population) :
            DOMAIN population[i] = DOMAIN ga_data.pending_events

\* after a crossover followed by a mutation the two chromosomes differ and
\* hold both scheduled and unscheduled events
C5_Witness ==
    /\ pc = "crossed_mutated"
    /\ population[1] # population[2]
    /\ \E e \in DOMAIN population[1] : IsSlot(population[1][e])
    /\ \E e \in DOMAIN population[1] : ~IsSlot(population[1][e])

\* C8: in a non-hectic week every assignment that initialize_population or
\* mutate places on a non-Sunday day is clear of every nightly curfew
\* window (22:00 to 06:00 of the next day).
C8_GeneratedSlotsAvoidCurfew ==
    (pc \in Bred /\ ~Rules(ga_data).is_hectic_week) =>
        \A i \in 1..Len(population) :
            \A e \in Scheduled(population[i]) :
                Weekday(ga_data.start_weekday, DateOf(population[i][e].start)) # 6
                  => \A dd \in (0 - 1)..WeekDays :
                        ~ShareInstant(population[i][e].start, population[i][e].end,
                                      CurfewSlot(dd).start, CurfewSlot(dd).end)

\* ------------------------------------------------------------------------
\* _check_slot_constraints_for_reason and _run_post_mortem_analysis
\* ------------------------------------------------------------------------
\* A reason string is kept as the fixed text of its f-string and the values
\* that are formatted into it.
NoReason == [text |-> "None", args |-> << >>]
Reason(text, args) == [text |-> text, args |-> args]

\* 1. basic time bounds
TimeBoundsReason(st, en, gd) ==
    IF ~InWeek(DateOf(st)) THEN Reason("Outside Target Week", << DateOf(st) >>)
    ELSE IF Weekday(gd.start_weekday, DateOf(st)) = 6
         THEN Reason("Sunday Blockage", << >>)
    ELSE IF StartInCurfew(st) THEN Reason("Night Curfew", << >>)
    ELSE IF en > At(DateOf(st) + 1, HM(6, 0))
         THEN Reason("Night Curfew (Ends past 06:00)", << >>)
    ELSE IF (HM(22, 0) < TimeOf(en)
               \/ (TimeOf(en) <= HM(6, 0) /\ DateOf(en) > DateOf(st)))
            /\ TimeOf(en) # 0
         THEN Reason("Night Curfew", << >>)
    ELSE NoReason

RECURSIVE FirstGeneralReason(_, _, _)
\* the reason of the first slot of the list that overlaps [st, en)
FirstGeneralReason(u, st, en) ==
    IF u = << >> THEN NoReason
    ELSE IF check_overlap(st, en, Head(u).start, Head(u).end)
         THEN Reason(Head(u).reason, << >>)
         ELSE FirstGeneralReason(Tail(u), st, en)

GeneralReason_Anonymous(st, en, gd) ==
    IF GeneralCharge(Slot("any", st, en), gd) = 1
    THEN Reason("General Unavailability", << >>) ELSE NoReason

\* 2. general unavailable slots
GeneralReason(st, en, gd) ==
    FirstGeneralReason(gd.week_constraints.unavailable_general_slots, st, en)

RECURSIVE FirstBlockReason(_, _, _, _, _)
\* the first block of the key whose day matches and whose times overlap
FirstBlockReason(blocks, key, st, en, wd) ==
    IF blocks = << >> THEN NoReason
    ELSE LET block == Head(blocks) IN
         IF (block.day = "None" \/ DayName(wd) = block.day)
            /\ Max2(TimeOf(st), block.start) < Min2(TimeOf(en), block.end)
         THEN Reason("Venue Blockage",
                     << key, block.day, block.start, block.end >>)
         ELSE FirstBlockReason(Tail(blocks), key, st, en, wd)

\* 3. venue-specific blockages, only when the week is not hectic
BlockageReason(venue_id, st, en, gd) ==
    LET wd == Weekday(gd.start_weekday, DateOf(st)) IN
    IF Rules(gd).is_hectic_week THEN NoReason
    ELSE IF venue_id \notin DOMAIN gd.venues
         THEN Reason("Venue Not Found", << venue_id >>)
    ELSE IF BlockageKey(gd.venues[venue_id], wd) \in DOMAIN Rules(gd).blockages
         THEN FirstBlockReason(
                 Rules(gd).blockages[BlockageKey(gd.venues[venue_id], wd)],
                 BlockageKey(gd.venues[venue_id], wd), st, en, wd)
    ELSE NoReason

RECURSIVE FirstNotFound(_, _)
\* first request, in list order, of an equipment id or name that is unknown
FirstNotFound(reqs, gd) ==
    IF reqs = << >> THEN NoReason
    ELSE LET id == Head(reqs).equipment_id_str IN
         IF id \notin DOMAIN gd.equipment_id_to_name
         THEN Reason("Equipment Not Found (ID)", << id >>)
         ELSE IF gd.equipment_id_to_name[id] \notin DOMAIN gd.equipment_counts
         THEN Reason("Equipment Not Found", << gd.equipment_id_to_name[id] >>)
         ELSE FirstNotFound(Tail(reqs), gd)

RECURSIVE FirstUnavailable(_, _, _)
\* first equipment name, in the order the names enter requests_this_slot,
\* whose summed request exceeds the inventory count
FirstUnavailable(rest, reqs, gd) ==
    IF rest = << >> THEN NoReason
    ELSE LET nm == gd.equipment_id_to_name[Head(rest).equipment_id_str]
             asked == SumQty(reqs, gd.equipment_id_to_name, nm)
         IN  IF asked > gd.equipment_counts[nm]
             THEN Reason("Equipment Unavailable",
                         << nm, asked, gd.equipment_counts[nm] >>)
             ELSE FirstUnavailable(Tail(rest), reqs, gd)

\* 4. equipment, for the requests of this event only
EquipmentReason(ev, gd) ==
    IF ev \notin DOMAIN gd.equipment_requests_by_event THEN NoReason
    ELSE IF FirstNotFound(gd.equipment_requests_by_event[ev], gd) # NoReason
         THEN FirstNotFound(gd.equipment_requests_by_event[ev], gd)
    ELSE FirstUnavailable(gd.equipment_requests_by_event[ev],
                          gd.equipment_requests_by_event[ev], gd)

\* 5. capacity
CapacityReason(ev, venue_id, gd) ==
    IF venue_id \notin DOMAIN gd.venues
    THEN Reason("Venue Data Error", << venue_id >>)
    ELSE IF gd.pending_events[ev].estimated_attendees
              > gd.venues[venue_id].occupancy
         THEN Reason("Capacity Exceeded",
                     << gd.pending_events[ev].estimated_attendees,
                        gd.venues[venue_id].occupancy >>)
    ELSE NoReason

RECURSIVE FirstReason(_)
FirstReason(rs) ==
    IF rs = << >> THEN NoReason
    ELSE IF Head(rs) # NoReason THEN Head(rs) ELSE FirstReason(Tail(rs))

\* the reason of the first check that fails, or None
check_slot_constraints_for_reason(ev, venue_id, st, en, gd) ==
    FirstReason(<< TimeBoundsReason(st, en, gd),
                   GeneralReason(st, en, gd),
                   BlockageReason(venue_id, st, en, gd),
                   EquipmentReason(ev, gd),
                   CapacityReason(ev, venue_id, gd) >>)

\* times_to_check: every 30 minutes from 06:00 to 21:30
TimesToCheck == { HM(h, m) : h \in 6..21, m \in {0, 30} }

\* the slots the analysis tries for one event: day x venue x time, without
\* those whose end date is not before target_end_date
CheckSlots(ev, gd) ==
    { s \in { Slot(v, At(d, t), At(d, t) + DurationOf(gd.pending_events[ev])) :
                d \in 0..(WeekDays - 1), v \in DOMAIN gd.venues,
                t \in TimesToCheck } :
        DateOf(s.end) < WeekDays }

\* conflict_reasons of one event
ConflictReasons(ev, gd) ==
    { check_slot_constraints_for_reason(ev, s.venue, s.start, s.end, gd) :
        s \in CheckSlots(ev, gd) } \ {NoReason}

\* event_analysis: its first line and the "- reason" lines that follow
EventAnalysis(ev, gd) ==
    IF ConflictReasons(ev, gd) = {}
    THEN [header |-> "No constraint conflicts found in sampled check slots.",
          reasons |-> {}]
    ELSE [header |-> "Potential blocking constraints identified:",
          reasons |-> ConflictReasons(ev, gd)]

run_post_mortem_analysis(unscheduled_event_ids, gd) ==
    IF DOMAIN gd.venues = {}
    THEN [e \in SeqRange(unscheduled_event_ids) |->
            [header |-> "Post-mortem skipped: No venues available.",
             reasons |-> {}]]
    ELSE [e \in SeqRange(unscheduled_event_ids) \cap DOMAIN gd.pending_events |->
            EventAnalysis(e, gd)]

\* ------------------------------------------------------------------------
\* SpecPM: the post-mortem analysis of a week with a national holiday on
\* day 3
\* ------------------------------------------------------------------------
HolidayName == "Rizal Day"
HolidayDay == 3

Single(d) == [kind |-> "single", a |-> d, b |-> d]
Range(a, b) == [kind |-> "range", a |-> a, b |-> b]

\* what else the calendar holds besides the holiday
ExtraEntries ==
    { [school |-> << >>, exams |-> << >>],
      [school |-> << [event |-> "Semestral Break", date |-> Single(2)] >>,
       exams |-> << >>],
      [school |-> << >>,
       exams |-> << [event |-> "None", date |-> Range(5, 6)] >>] }

PMCalendar(hectic, extra) ==
    [readable |-> TRUE, wellformed |-> TRUE,
     hectic_periods |-> IF hectic THEN << [date |-> Range(0, 6)] >> ELSE << >>,
     unavailable_dates |->
        [national_holidays |->
            << [event |-> HolidayName, date |-> Single(HolidayDay)] >>,
         school_holidays_breaks |-> extra.school,
         examination_periods |-> extra.exams],
     standard_venue_blockages |->
        [k \in { << "Classroom", "weekday" >> } |->
            << [start_time |-> HM(10, 0), end_time |-> HM(12, 0),
                day |-> "None", valid |-> TRUE] >>]]

\* requested durations of the event in hours; 0 stands for a request
\* without times (default duration)
PMDurations == {0, 2, 16, 17, 19}

\* estimated_attendees of e1: within and beyond the occupancy of v1
PMAttendees == {40, 60}

PMDb(hours, venue_ids, attendees) ==
    [reachable |-> TRUE,
     events |->
        << EventDoc("e1", "Pending", At(HolidayDay, 0), 
                    IF hours = 0 THEN NoneDT ELSE At(HolidayDay, HM(6, 0)),
                    IF hours = 0 THEN NoneDT ELSE At(HolidayDay, HM(6 + hours, 0)),
                    attendees),
           EventDoc("e2", "Pending", At(1, 0), At(1, HM(9, 0)),
                    At(1, HM(10, 0)), 120) >>,
     schedules |-> << >>,
     venues |-> [v \in venue_ids |-> VenueDocs[v]],
     equipment |-> [i \in {"q1", "q2"} |-> "projector"],
     event_equipment |->
        << [event_id |-> "e2", equipment_id |-> "q1", quantity |-> 3] >>,
     preferences |-> << >>]

InitPM ==
    /\ pc = "post_mortem"
    /\ \E sw \in {0, 1, 3} : request = [start_weekday |-> sw]
    /\ \E hectic \in BOOLEAN, extra \in ExtraEntries :
          calendar_file = PMCalendar(hectic, extra)
    /\ \E hours \in PMDurations, venue_ids \in { {"v1"}, {"v1", "v2"} },
          attendees \in PMAttendees :
          db = PMDb(hours, venue_ids, attendees)
    /\ ga_data = fetch_ga_data(request.start_weekday, db,
                    process_weekly_constraints(request.start_weekday, calendar_file))
    /\ weights = DefaultWeights
    /\ chromosome = NoChromosome
    /\ fit = NotEvaluated
    /\ rng = NoRng /\ population = << >>
    /\ call = NoCall /\ evaluated = {} /\ best = NoBest /\ generation = 0
    /\ \E ids \in { << "e1" >>, << "e1", "e2" >>, << "e2", "e1" >> } :
          ret = [NoRet EXCEPT !.unscheduled = ids]

RunPostMortem ==
    /\ pc = "post_mortem"
    /\ ret' = [ret EXCEPT
                 !.returned = TRUE,
                 !.report.unscheduled_event_analysis =
                     run_post_mortem_analysis(ret.unscheduled, ga_data)]
    /\ pc' = "analysed"
    /\ UNCHANGED << call, evaluated, request, calendar_file, db, ga_data, weights, chromosome,
                    fit, rng, population, best, generation >>

NextPM == RunPostMortem
SpecPM == InitPM /\ [][NextPM]_vars

\* the texts of the reasons reported for an event
ReportedTexts(ev) ==
    { r.text : r \in ret.report.unscheduled_event_analysis[ev].reasons }

\* C9 (as stated): with a single national holiday on day 3, the analysis of
\* the unscheduled event requested for day 3 reports a reason that contains
\* the holiday's name, whatever the venues and the event's duration.
C9_HolidayAlwaysReported ==
    pc = "analysed" => HolidayName \in ReportedTexts("e1")

\* C9 (amended): when day 3 is not a Sunday and the event lasts at most 16
\* hours, the analysis reports the holiday's name for the event, and in
\* every venue some sampled slot of day 3 is refused with that name.
C9_HolidayReportedUpTo16Hours ==
    (/\ pc = "analysed"
     /\ Weekday(ga_data.start_weekday, HolidayDay) # 6
     /\ DurationOf(ga_data.pending_events["e1"]) <= HM(16, 0))
    => /\ HolidayName \in ReportedTexts("e1")
       /\ \A v \in DOMAIN ga_data.venues :
             \E s \in CheckSlots("e1", ga_data) :
                /\ s.venue = v /\ DateOf(s.start) = HolidayDay
                /\ check_slot_constraints_for_reason("e1", v, s.start, s.end,
                                                     ga_data)
                     = Reason(HolidayName, << >>)

\* a 16-hour event in a week with two venues, analysed with the holiday's
\* name among its reasons
C9_Witness ==
    /\ pc = "analysed"
    /\ Weekday(ga_data.start_weekday, HolidayDay) # 6
    /\ DurationOf(ga_data.pending_events["e1"]) = HM(16, 0)
    /\ DOMAIN ga_data.venues = {"v1", "v2"}
    /\ HolidayName \in ReportedTexts("e1")
    /\ Cardinality(ReportedTexts("e1")) > 1

\* ------------------------------------------------------------------------
\* selection and optimize_weekly_schedule
\* ------------------------------------------------------------------------
DEFAULT_MUTATION_RATE == 15        \* 0.15, in percent
DEFAULT_CROSSOVER_RATE == 80       \* 0.8, in percent
DEFAULT_TOURNAMENT_SIZE == 5

\* tournament selection: random.sample of actual_k indices, the contender
\* with the highest score wins (any of them on a tie, the sample order
\* being random)
selection(pop, fitness_results, k) ==
    IF pop = << >> THEN { NoChromosome }
    ELSE IF fitness_results = << >> \/ Len(pop) # Len(fitness_results)
         THEN SeqRange(pop)
    ELSE IF Min2(k, Len(pop)) <= 0 THEN { pop[1] }
    ELSE { pop[i] :
             i \in UNION { { j \in T : \A m \in T :
                               fitness_results[j].score >= fitness_results[m].score }
                           : T \in { U \in SUBSET (1..Len(pop)) :
                                       Cardinality(U) = Min2(k, Len(pop)) } } }

\* the report after step 2 (constraints processed, data fetched)
PreparedReport(gd) ==
    LET Relevant(c) == c.start < WeekEndDT /\ c.end > WeekStartDT IN
    [InitialReport EXCEPT
        !.input_event_count = Len(gd.pending_order),
        !.is_hectic_week = Rules(gd).is_hectic_week,
        !.active_general_constraints =
            SelectSeq(gd.week_constraints.unavailable_general_slots, Relevant),
        !.active_venue_blockages =
            IF Rules(gd).is_hectic_week THEN NoBlockages
            ELSE Rules(gd).blockages]

\* a return of optimize_weekly_schedule; the second element is a list of
\* event ids, or of event documents at the population-failure exit
Return(schedule, unscheduled, kind, report) ==
    [returned |-> TRUE, schedule |-> schedule, unscheduled |-> unscheduled,
     unscheduled_kind |-> kind, report |-> report]

\* fitness results of the whole population
Evaluations(pop, gd, w) ==
    [i \in 1..Len(pop) |-> calculate_fitness(pop[i], gd, w)]

\* the ordering of candidates: fewer violations first, then higher score
Better(a, b) ==
    \/ a.violations < b.violations
    \/ (a.violations = b.violations /\ a.score > b.score)

\* the results of S that no result of S beats: a candidate that none of
\* them beats is beaten by no result of S
Unbeaten(S) == { r \in S : \A q \in S : ~Better(q, r) }

GenerationBest_Any(pop, fits) ==
    { [defined |-> TRUE, chromosome |-> pop[i], score |-> fits[i].score,
       violations |-> fits[i].violations] : i \in 1..Len(pop) }

\* the candidates of a generation that no other candidate beats
GenerationBest(pop, fits) ==
    { [defined |-> TRUE, chromosome |-> pop[i], score |-> fits[i].score,
       violations |-> fits[i].violations] :
        i \in { j \in 1..Len(pop) :
                  \A m \in 1..Len(pop) : ~Better(fits[m], fits[j]) } }

UpdateBest_OnTies(b, cand) ==
    IF ~b.defined \/ ~Better(b, cand) THEN cand ELSE b

\* the best-ever candidate is replaced only on strict improvement
UpdateBest(b, cand) ==
    IF ~b.defined \/ Better(cand, b) THEN cand ELSE b

\* the pairs of children one Selection -> Crossover -> Mutation round can give
Children(pop, fits, gd, req, r) ==
    LET sel == selection(pop, fits, req.tournament_size) IN
    UNION { UNION { UNION {
        { << m1, m2 >> : m1 \in mutate(ch[1], gd, req.mutation_rate, r),
                         m2 \in mutate(ch[2], gd, req.mutation_rate, r) }
        : ch \in crossover(p1, p2, gd, req.crossover_rate) }
        : p2 \in sel } : p1 \in sel }

RECURSIVE Refill(_, _, _)
\* rounds are repeated until the population has its size again
Refill(sofar, pairs, size) ==
    IF Len(sofar) >= size THEN { SubSeq(sofar, 1, size) }
    ELSE UNION { Refill(sofar \o pair, pairs, size) : pair \in pairs }

\* the next generation: the best-ever chromosome carried over, then children
NextPopulations(elite, pop, fits, gd, req, r) ==
    Refill(<< elite >>, Children(pop, fits, gd, req, r), Len(pop))

\* final_schedule_entries: one entry per non-null assignment whose event
\* is a pending event, in the order of the chromosome
ScheduleEntries(chrom, gd) ==
    LET Found(e) == e \in DOMAIN gd.pending_events
        evs == SelectSeq(ScheduledInOrder(chrom, gd), Found)
    IN  [i \in 1..Len(evs) |->
            [event_id |-> evs[i], venue_id |-> chrom[evs[i]].venue,
             organization_id |-> gd.pending_events[evs[i]].organization_id,
             scheduled_start_time |-> chrom[evs[i]].start,
             scheduled_end_time |-> chrom[evs[i]].end,
             is_optimized |-> TRUE]]

\* all the orders in which the elements of a set can be listed
Orderings(S) ==
    { sq \in [1..Cardinality(S) -> S] : \A x \in S : \E i \in DOMAIN sq : sq[i] = x }

ProposedEntries_Partial(chrom, verified, gd) ==
    LET Clean(en) == ChargeTotal(verified.charges[en.event_id]) = 0
    IN  SelectSeq(ScheduleEntries(chrom, gd), Clean)

\* the schedule entries returned after the verification step
ProposedEntries(chrom, verified, gd) ==
    IF verified.violations > 0 THEN << >> ELSE ScheduleEntries(chrom, gd)

UnscheduledLists_AllPending(chrom, verified, gd) == { gd.pending_order }

\* the unscheduled ids returned after the verification step: all input
\* ids, or list(set(all ids) - scheduled ids), whose order is that of a set
UnscheduledLists(chrom, verified, gd) ==
    IF verified.violations > 0 THEN { gd.pending_order }
    ELSE Orderings(SeqRange(gd.pending_order)
                     \ { ScheduleEntries(chrom, gd)[i].event_id :
                           i \in 1..Len(ScheduleEntries(chrom, gd)) })

\* the report returned after the verification step
VerifiedReport(rep, verified, entries, unscheduled, gd) ==
    [rep EXCEPT
        !.final_fitness = << verified.score >>,
        !.final_violations = << verified.violations >>,
        !.unscheduled_event_analysis =
            IF unscheduled # << >>
            THEN run_post_mortem_analysis(unscheduled, gd) ELSE @,
        !.summary =
            IF verified.violations > 0
            THEN "Best solution found violated hard constraints. Treating all events as unscheduled."
            ELSE IF unscheduled # << >>
            THEN "GA found a valid schedule for some events, but could not schedule others."
            ELSE "GA successfully found a valid schedule for all events."]

\* ------------------------------------------------------------------------
\* SpecOpt: runs of optimize_weekly_schedule
\* ------------------------------------------------------------------------
PopSize == 2       \* population_size of the runs explored
MaxGen == 2        \* max_generations of the runs explored

\* the calendar file: unreadable, or without entries, or with a hectic
\* period that covers the week
OptCalendars ==
    { [NoCalendar EXCEPT !.readable = FALSE],
      [NoCalendar EXCEPT !.wellformed = FALSE],
      NoCalendar,
      [NoCalendar EXCEPT !.hectic_periods = << [date |-> Range(0, 6)] >>] }

\* two events asking for venue v1 on day 0 from 09:00 to 10:00; e2 also
\* asks for qty projectors out of the two of the inventory
OptDb(status1, status2, qty, venue_ids) ==
    [reachable |-> TRUE,
     events |->
        << EventDoc("e1", status1, At(0, 0), At(0, HM(9, 0)), At(0, HM(10, 0)), 40),
           EventDoc("e2", status2, At(0, 0), At(0, HM(9, 0)), At(0, HM(10, 0)), 40) >>,
     schedules |-> << >>,
     venues |-> [v \in venue_ids |-> VenueDocs[v]],
     equipment |-> [i \in {"q1", "q2"} |-> "projector"],
     event_equipment |->
        << [event_id |-> "e2", equipment_id |-> "q1", quantity |-> qty] >>,
     preferences |-> << >>]

InitOpt ==
    /\ pc = "opt_start"
    /\ request = [start_weekday |-> 0, population_size |-> PopSize,
                  max_generations |-> MaxGen,
                  mutation_rate |-> DEFAULT_MUTATION_RATE,
                  crossover_rate |-> DEFAULT_CROSSOVER_RATE,
                  tournament_size |-> DEFAULT_TOURNAMENT_SIZE]
    /\ calendar_file \in OptCalendars
    /\ \E s1 \in {"Pending", "Approved"}, s2 \in {"Pending", "Approved"},
          qty \in {1, MaxQty}, venue_ids \in { {"v1"}, {} },
          up \in BOOLEAN :
          db = [OptDb(s1, s2, qty, venue_ids) EXCEPT !.reachable = up]
    /\ ga_data = NoGaData
    /\ weights = DefaultWeights
    /\ chromosome = NoChromosome
    /\ fit = NotEvaluated
    /\ rng = [days |-> {0}, hours |-> {13}, minutes |-> {0}]
    /\ population = << >>
    /\ call = NoCall /\ evaluated = {} /\ best = NoBest /\ generation = 0 /\ ret = NoRet

\* 1. load the calendar file
OptLoadConfig ==
    /\ pc = "opt_start"
    /\ IF calendar_file.readable
       THEN pc' = "opt_prepare" /\ UNCHANGED ret
       ELSE /\ pc' = "opt_done"
            /\ ret' = Return(<< >>, << >>, "ids",
                        [InitialReport EXCEPT !.summary = "Error loading config"])
    /\ UNCHANGED << call, evaluated, request, calendar_file, db, ga_data, weights, chromosome,
                    fit, rng, population, best, generation >>

NoPendingReport_Unset(gd) ==
    [PreparedReport(gd) EXCEPT !.summary = "No pending events to schedule."]

\* the report of the early exit taken when no event is pending
NoPendingReport(gd) ==
    [PreparedReport(gd) EXCEPT
        !.summary = "No pending events to schedule.",
        !.final_fitness = << 0 >>,
        !.final_violations = << 0 >>]

PrepareFails_ConstraintsOnly(calendar_data, db0) == ~calendar_data.wellformed

\* an exception inside the try block of step 2: process_weekly_constraints
\* raises on a calendar whose structure is not the expected one, and
\* fetch_ga_data raises when the database cannot be reached; `except
\* Exception` takes both
PrepareFails(calendar_data, db0) ==
    ~calendar_data.wellformed \/ ~db0.reachable

\* 2. process the constraints, fetch the data, fill the report
OptPrepare ==
    /\ pc = "opt_prepare"
    /\ IF PrepareFails(calendar_file, db)
       THEN /\ pc' = "opt_done"
            /\ ret' = Return(<< >>, << >>, "ids",
                        [InitialReport EXCEPT
                            !.summary = "Error fetching data/processing constraints",
                            !.input_event_count = 0])
            /\ UNCHANGED ga_data
       ELSE \E gd \in { fetch_ga_data(request.start_weekday, db,
                        process_weekly_constraints(request.start_weekday, calendar_file)) } :
               /\ ga_data' = gd
               /\ IF gd.pending_order = << >>
                  THEN /\ pc' = "opt_done"
                       /\ ret' = Return(<< >>, << >>, "ids", NoPendingReport(gd))
                  ELSE /\ pc' = "opt_init"
                       /\ ret' = [ret EXCEPT !.report = PreparedReport(gd)]
    /\ UNCHANGED << call, evaluated, request, calendar_file, db, weights, chromosome, fit, rng,
                    population, best, generation >>

\* 3. initialize the population
OptInitialize ==
    /\ pc = "opt_init"
    /\ population' \in initialize_population(request.population_size, ga_data, rng)
    /\ IF population' = << >>
       THEN /\ pc' = "opt_done"
            /\ ret' = Return(<< >>, ga_data.pending_order, "documents",
                        [ret.report EXCEPT
                            !.summary = "Failed to initialize GA population."])
       ELSE pc' = "opt_loop" /\ UNCHANGED ret
    /\ UNCHANGED << call, evaluated, request, calendar_file, db, ga_data, weights, chromosome,
                    fit, rng, best, generation >>

\* 4. one generation: evaluate, track the best-ever, breed
OptGeneration ==
    /\ pc = "opt_loop"
    /\ generation < request.max_generations
    /\ \E fits \in { Evaluations(population, ga_data, weights) } :
       IF \E i \in 1..Len(fits) : fits[i].status = "raised"
       THEN /\ pc' = "opt_raised"
            /\ UNCHANGED << population, best, generation, evaluated >>
       ELSE /\ \E cand \in GenerationBest(population, fits) :
                  best' = UpdateBest(best, cand)
            /\ evaluated' = Unbeaten(evaluated \cup
                  { [violations |-> fits[i].violations, score |-> fits[i].score] :
                      i \in 1..Len(fits) })
            /\ population' \in NextPopulations(best'.chromosome, population, fits,
                                               ga_data, request, rng)
            /\ generation' = generation + 1
            /\ pc' = "opt_loop"
    /\ UNCHANGED << call, request, calendar_file, db, ga_data, weights, chromosome,
                    fit, rng, ret >>

\* 5. after the loop: verify the best chromosome and build the return value
OptFinish ==
    /\ pc = "opt_loop"
    /\ generation >= request.max_generations
    /\ IF ~best.defined
       THEN /\ pc' = "opt_done"
            /\ ret' = Return(<< >>, ga_data.pending_order, "ids",
                        [ret.report EXCEPT
                            !.unscheduled_event_analysis =
                                run_post_mortem_analysis(ga_data.pending_order, ga_data),
                            !.summary = "GA could not find any potentially valid schedule configuration."])
            /\ UNCHANGED fit
       ELSE \E verified \in { calculate_fitness(best.chromosome, ga_data, weights) } :
            /\ fit' = verified
            /\ IF verified.status = "raised"
               THEN pc' = "opt_raised" /\ UNCHANGED ret
               ELSE /\ pc' = "opt_done"
                    /\ \E un \in UnscheduledLists(best.chromosome, verified, ga_data) :
                          ret' = Return(
                                    ProposedEntries(best.chromosome, verified, ga_data),
                                    un, "ids",
                                    VerifiedReport(ret.report, verified,
                                        ProposedEntries(best.chromosome, verified, ga_data),
                                        un, ga_data))
    /\ UNCHANGED << call, evaluated, request, calendar_file, db, ga_data, weights, chromosome,
                    rng, population, best, generation >>

NextOpt ==
    \/ OptLoadConfig \/ OptPrepare \/ OptInitialize \/ OptGeneration
    \/ OptFinish
SpecOpt == InitOpt /\ [][NextOpt]_vars

\* ids of the schedule entries returned
ReturnedScheduledIds == { ret.schedule[i].event_id : i \in 1..Len(ret.schedule) }

\* the run has gone through the verification step and returned
Verified == pc = "opt_done" /\ fit.status = "returned"

\* C2: when the verification of the best chromosome counts a violation, no
\* schedule entry is returned, every pending event id is returned as
\* unscheduled, and the post-mortem analysis covers all of them.
C2_FailedVerificationDiscardsAll ==
    (Verified /\ fit.violations > 0) =>
        /\ ret.schedule = << >>
        /\ ret.unscheduled_kind = "ids"
        /\ ret.unscheduled = ga_data.pending_order
        /\ DOMAIN ret.report.unscheduled_event_analysis
             = DOMAIN ga_data.pending_events

\* the best chromosome schedules both events and fails the verification
C2_Witness ==
    /\ Verified /\ fit.violations > 0
    /\ Cardinality(Scheduled(best.chromosome)) = 2
    /\ Len(ret.unscheduled) = 2

\* C3: when the verified best chromosome has no violation, there is exactly
\* one schedule entry per non-null assignment, and the scheduled ids and
\* the unscheduled list are disjoint and together are the pending ids.
C3_CleanSplitPartitionsPending ==
    (Verified /\ fit.violations = 0) =>
        /\ Len(ret.schedule) = Cardinality(Scheduled(best.chromosome))
        /\ \A e \in Scheduled(best.chromosome) :
              \E i \in 1..Len(ret.schedule) :
                 /\ ret.schedule[i].event_id = e
                 /\ ret.schedule[i].venue_id = best.chromosome[e].venue
                 /\ ret.schedule[i].scheduled_start_time = best.chromosome[e].start
                 /\ ret.schedule[i].scheduled_end_time = best.chromosome[e].end
                 /\ \A j \in 1..Len(ret.schedule) :
                       ret.schedule[j].event_id = e => j = i
        /\ ReturnedScheduledIds \cap SeqRange(ret.unscheduled) = {}
        /\ ReturnedScheduledIds \cup SeqRange(ret.unscheduled)
             = DOMAIN ga_data.pending_events
        /\ Len(ret.unscheduled) = Cardinality(SeqRange(ret.unscheduled))

\* a clean best chromosome with one event scheduled and one left out
C3_Witness ==
    /\ Verified /\ fit.violations = 0
    /\ Len(ret.schedule) = 1
    /\ Len(ret.unscheduled) = 1
    /\ DOMAIN ret.report.unscheduled_event_analysis = SeqRange(ret.unscheduled)

\* C4: in every step of a run the best-ever candidate either stays or is
\* replaced by a candidate with fewer violations, or with as many
\* violations and a higher score.
C4_BestEverOnlyImproves ==
    [][ (best.defined /\ best' # best) => (best'.defined /\ Better(best', best)) ]_vars

\* after a generation the population holds a candidate that is strictly
\* better than the best-ever one, which the next generation will adopt
C4_Witness ==
    /\ pc = "opt_loop" /\ generation >= 1 /\ generation < MaxGen
    /\ best.defined
    /\ \A i \in 1..Len(population) :
          calculate_fitness(population[i], ga_data, weights).status = "returned"
    /\ \E i \in 1..Len(population) :
          Better(calculate_fitness(population[i], ga_data, weights), best)

\* ------------------------------------------------------------------------
\* SpecOverlap: check_overlap applied to pairs of intervals
\* ------------------------------------------------------------------------
MaxT == 4          \* interval bounds range over 0..MaxT

\* an interval is a pair (start, end); any two datetimes are accepted
Intervals == (0..MaxT) \X (0..MaxT)

InitOverlap ==
    /\ pc = "check_overlap"
    /\ \E A \in Intervals, B \in Intervals :
          call = [args |-> << A, B >>, result |-> << >>]
    /\ evaluated = {}
    /\ request = NoRequest /\ calendar_file = NoCalendar /\ db = NoDb
    /\ ga_data = NoGaData /\ weights = DefaultWeights
    /\ chromosome = NoChromosome /\ fit = NotEvaluated
    /\ rng = NoRng /\ population = << >>
    /\ best = NoBest /\ generation = 0 /\ ret = NoRet

\* check_overlap(A, B), check_overlap(B, A) and check_overlap(A, A)
ApplyOverlap ==
    /\ pc = "check_overlap"
    /\ LET A == call.args[1]
           B == call.args[2]
       IN  call' = [call EXCEPT !.result =
                      [ab |-> check_overlap(A[1], A[2], B[1], B[2]),
                       ba |-> check_overlap(B[1], B[2], A[1], A[2]),
                       aa |-> check_overlap(A[1], A[2], A[1], A[2])]]
    /\ pc' = "overlap_checked"
    /\ UNCHANGED << evaluated, request, calendar_file, db, ga_data, weights, chromosome,
                    fit, rng, population, best, generation, ret >>

NextOverlap == ApplyOverlap
SpecOverlap == InitOverlap /\ [][NextOverlap]_vars

\* C11: check_overlap is symmetric, an interval with start < end overlaps
\* itself, and an interval that ends exactly when the other starts does
\* not overlap it.
C11_OverlapSymmetricHalfOpen ==
    pc = "overlap_checked" =>
        LET A == call.args[1]
            B == call.args[2]
        IN  /\ call.result.ab = call.result.ba
            /\ (A[1] < A[2] => call.result.aa)
            /\ (A[2] = B[1] => ~call.result.ab)
            /\ (B[2] = A[1] => ~call.result.ab)

\* two proper intervals that touch, checked and found not to overlap
C11_Witness ==
    /\ pc = "overlap_checked"
    /\ call.args[1][1] < call.args[1][2]
    /\ call.args[2][1] < call.args[2][2]
    /\ call.args[1][2] = call.args[2][1]
    /\ call.result.aa /\ ~call.result.ab /\ ~call.result.ba

\* the chromosome without the assignment of event e
Without(chrom, e) == [chrom EXCEPT ![e] = NoSlot]

\* events of the chromosome that are scheduled and charged nothing
CleanEvents(res, chrom) ==
    { e \in Scheduled(chrom) : ChargeTotal(res.charges[e]) = 0 }

\* e is a violating event of the evaluated chromosome whose removal leaves
\* the non-violating events, hence their soft contributions, as they are
OneMoreViolating(e) ==
    /\ e \in Scheduled(chromosome)
    /\ ChargeTotal(fit.charges[e]) > 0
    /\ calculate_fitness(Without(chromosome, e), ga_data, weights).status = "returned"
    /\ CleanEvents(calculate_fitness(Without(chromosome, e), ga_data, weights),
                   Without(chromosome, e))
         = CleanEvents(fit, chromosome)

RunFails ==
    ~calendar_file.readable \/ ~calendar_file.wellformed \/ ~db.reachable

\* C13: when loading the calendar fails, or processing the constraints or
\* fetching the data raises, the run raises nothing: it returns an empty
\* schedule, an empty unscheduled list and a summary that names the error.
C13_FailuresReturnReport ==
    RunFails =>
        /\ pc # "opt_raised"
        /\ pc = "opt_done" =>
              /\ ret.returned
              /\ ret.schedule = << >> /\ ret.unscheduled = << >>
              /\ ret.report.summary
                   = IF calendar_file.readable
                     THEN "Error fetching data/processing constraints"
                     ELSE "Error loading config"

\* a run with pending events in the database that ended on a fetch failure
C13_Witness ==
    /\ pc = "opt_done" /\ ret.returned
    /\ calendar_file.readable /\ calendar_file.wellformed /\ ~db.reachable
    /\ DOMAIN db.venues # {}
    /\ \E i \in 1..Len(db.events) : db.events[i].approval_status = "Pending"

\* C14: when population initialization produces nothing while pending events
\* exist, the run returns an empty schedule, records the failure in the
\* summary, lists every pending event identifier as unscheduled, and the
\* report carries post-mortem findings for each of them.
C14_InitFailureAnalysesAll ==
    (pc = "opt_done" /\ ret.returned
        /\ ret.report.summary = "Failed to initialize GA population.") =>
        /\ ret.schedule = << >>
        /\ ret.unscheduled_kind = "ids"
        /\ SeqRange(ret.unscheduled) = SeqRange(ga_data.pending_order)
        /\ DOMAIN ret.report.unscheduled_event_analysis
             = SeqRange(ga_data.pending_order)

\* the database holds no pending event
NothingPending ==
    \A i \in 1..Len(db.events) : db.events[i].approval_status # "Pending"

\* C15: with no pending events the run goes straight to its end without
\* building a population, and returns an empty schedule, an empty
\* unscheduled list, final violations 0 and final fitness 0.
C15_NoPendingEndsAtOnce ==
    (NothingPending /\ ~RunFails) =>
        /\ pc \in {"opt_start", "opt_prepare", "opt_done"}
        /\ population = << >> /\ generation = 0
        /\ pc = "opt_done" =>
              /\ ret.returned
              /\ ret.schedule = << >> /\ ret.unscheduled = << >>
              /\ ret.report.final_violations = << 0 >>
              /\ ret.report.final_fitness = << 0 >>

\* a finished run over a database whose events are all approved already
C15_Witness ==
    /\ pc = "opt_done" /\ ret.returned
    /\ NothingPending /\ ~RunFails
    /\ Len(db.events) > 0 /\ DOMAIN db.venues # {}
    /\ ret.report.summary = "No pending events to schedule."

\* C16: with a non-empty population and at least one generation, every
\* chromosome of each generation is evaluated, and after a generation the
\* best-ever candidate is defined and at least as good as every chromosome
\* evaluated so far (fewer violations first, then higher fitness).
C16_BestEverBoundsEvaluated ==
    generation >= 1 =>
        /\ best.defined
        /\ evaluated # {}
        /\ \A r \in evaluated : ~Better(r, best)
        /\ [violations |-> best.violations, score |-> best.score] \in evaluated

\* two generations are done, the best-ever candidate is one of the
\* evaluated ones and the population bred from them holds a chromosome that
\* is strictly worse
C16_Witness ==
    /\ pc = "opt_loop" /\ generation >= 2 /\ best.defined
    /\ [violations |-> best.violations, score |-> best.score] \in evaluated
    /\ \E i \in 1..Len(population) :
          /\ calculate_fitness(population[i], ga_data, weights).status = "returned"
          /\ Better(best, calculate_fitness(population[i], ga_data, weights))

\* C17: each scheduled event adds at most one to the hard-violation count
\* (the first failing check adds one and the later checks are skipped), so
\* the count of a chromosome is the number of its violating events.
C17_OneViolationPerEvent ==
    (pc = "evaluated" /\ fit.status = "returned") =>
        /\ \A e \in DOMAIN chromosome : ChargeTotal(fit.charges[e]) <= 1
        /\ fit.violations
             = Cardinality({ e \in DOMAIN chromosome :
                               ChargeTotal(fit.charges[e]) > 0 })

\* the events scheduled at instant t: chromosome assignments and existing
\* commitments whose half-open interval holds t
ScheduledAt(t, chrom, gd) ==
    { o.event : o \in { a \in ActiveSlots(chrom, gd) : a.start <= t /\ t < a.end } }

\* the instants at which the set of scheduled events can grow
Instants(chrom, gd) == { o.start : o \in ActiveSlots(chrom, gd) }

\* the instants covered by at least one assignment of the chromosome
CoveredInstants(chrom, gd) ==
    { t \in Instants(chrom, gd) :
        \E e \in Scheduled(chrom) : chrom[e].start <= t /\ t < chrom[e].end }

\* every equipment name a request refers to
AllNames(gd) == RequestedNames(DOMAIN gd.equipment_requests_by_event, gd)

\* inventory count of an equipment name, 0 for a name without inventory
Inventory(gd, nm) ==
    IF nm \in DOMAIN gd.equipment_counts THEN gd.equipment_counts[nm] ELSE 0

SpecOptLive == SpecOpt /\ WF_vars(NextOpt)

\* C19: every run of optimize_weekly_schedule terminates: it reaches its
\* end and returns the triple (schedule, unscheduled, report).
C19_EveryRunReturns == <>(pc = "opt_done" /\ ret.returned)

\* a chromosome that holds the one assignment of ev to slot s
Alone(ev, s, gd) ==
    [e \in SeqRange(gd.pending_order) |-> IF e = ev THEN s ELSE NoSlot]

\* calculate_fitness counts a hard violation for that chromosome when the
\* run context holds no existing commitments
EvaluatorCounts(ev, s, gd, w) ==
    LET res == calculate_fitness(Alone(ev, s, gd),
                                 [gd EXCEPT !.existing_schedules = << >>], w)
    IN  res.status = "returned" /\ res.violations > 0

\* C20: _check_slot_constraints_for_reason returns a reason for an event
\* and a slot exactly when calculate_fitness counts a hard violation for a
\* chromosome that holds only that assignment, with no existing commitments.
C20_ReasonIffViolation ==
    pc = "analysed" =>
        \A ev \in SeqRange(ret.unscheduled) :
            \A s \in CheckSlots(ev, ga_data) :
                (check_slot_constraints_for_reason(ev, s.venue, s.start, s.end, ga_data)
                    # NoReason)
                  <=> EvaluatorCounts(ev, s, ga_data, weights)

\* the originally requested date of the event lies inside a hectic period
\* of the calendar
RequestedInHecticPeriod(event, calendar_data) ==
    /\ event.requested_date # NoneDT
    /\ \E i \in 1..Len(calendar_data.hectic_periods) :
          LET ds == parse_date_string(calendar_data.hectic_periods[i].date) IN
          /\ ds # {}
          /\ MinOf(ds) <= DateOf(event.requested_date)
          /\ DateOf(event.requested_date) <= MaxOf(ds)

\* C21: in a hectic week, calculate_fitness adds the hectic-week bonus
\* weight to the soft score of every scheduled event without hard
\* violations whose originally requested date lies inside a hectic period
\* of the calendar.
C21_HecticBonusAdded ==
    (pc = "opt_loop" /\ Rules(ga_data).is_hectic_week) =>
        \A i \in 1..Len(population) :
            /\ calculate_fitness(population[i], ga_data, weights).status = "returned"
            /\ \A e \in Scheduled(population[i]) :
                  (/\ IsClean(population[i], e, ga_data)
                   /\ RequestedInHecticPeriod(ga_data.pending_events[e], calendar_file))
                  => HecticBonus(ga_data.pending_events[e], ga_data, weights)
                       = weights.hectic_week_priority_bonus * 10

\* ------------------------------------------------------------------------
\* SpecBreed: one generation of breeding, with the calls kept in `call`
\* ------------------------------------------------------------------------
InitBreed ==
    /\ pc = "initialize_population"
    /\ request = [start_weekday |-> 0, mutation_rate |-> DEFAULT_MUTATION_RATE,
                  crossover_rate |-> DEFAULT_CROSSOVER_RATE]
    /\ calendar_file = NoCalendar
    /\ \E req2 \in GenRequests : db = GenDb(req2)
    /\ ga_data = fetch_ga_data(request.start_weekday, db,
                    process_weekly_constraints(request.start_weekday, calendar_file))
    /\ weights = DefaultWeights
    /\ chromosome = NoChromosome
    /\ fit = NotEvaluated
    /\ rng = [days |-> {0}, hours |-> {20}, minutes |-> {0, 45}]
    /\ population = << >>
    /\ call = NoCall /\ evaluated = {} /\ best = NoBest /\ generation = 0 /\ ret = NoRet

\* `call` keeps the last breeding call: its arguments as they were passed,
\* what the same dicts hold on return, the result, and `retained`, the
\* index in the population of the dict that `best` refers to (0: none)
GenCall(op, args, after, result, retained) ==
    [op |-> op, args |-> args, after |-> after, result |-> result,
     retained |-> retained]

\* the population is built and its first chromosome is retained as best
BreedInitialize ==
    /\ pc = "initialize_population"
    /\ population' \in initialize_population(2, ga_data, rng)
    /\ best' = [NoBest EXCEPT !.defined = TRUE, !.chromosome = population'[1]]
    /\ call' = GenCall("initialize_population", << >>, << >>, << >>, 1)
    /\ pc' = "initialized"
    /\ UNCHANGED << evaluated, request, calendar_file, db, ga_data, weights, chromosome,
                    fit, rng, generation, ret >>

BreedCrossover ==
    /\ pc = "initialized"
    /\ \E ch \in crossover(population[1], population[2], ga_data,
                            request.crossover_rate) :
          \E after \in { parents_after_crossover(population[1], population[2], ch) } :
             /\ population' = << ch[1], ch[2] >>
             /\ call' = GenCall("crossover", << population[1], population[2] >>,
                                after, << ch[1], ch[2] >>, 0)
             /\ best' = IF call.retained \in {1, 2}
                        THEN [best EXCEPT !.chromosome = after[call.retained]]
                        ELSE best
    /\ pc' = "crossed"
    /\ UNCHANGED << evaluated, request, calendar_file, db, ga_data, weights, chromosome,
                    fit, rng, generation, ret >>

BreedMutate ==
    /\ pc \in {"initialized", "crossed"}
    /\ \E i \in 1..Len(population) :
          \E m \in mutate(population[i], ga_data, request.mutation_rate, rng) :
             \E after \in { chromosome_after_mutate(population[i], m) } :
                /\ population' = [population EXCEPT ![i] = m]
                /\ call' = GenCall("mutate", << population[i] >>, << after >>, << m >>,
                                   IF call.retained = i THEN 0 ELSE call.retained)
                /\ best' = IF call.retained = i
                           THEN [best EXCEPT !.chromosome = after]
                           ELSE best
    /\ pc' = IF pc = "crossed" THEN "crossed_mutated" ELSE "mutated"
    /\ UNCHANGED << evaluated, request, calendar_file, db, ga_data, weights, chromosome,
                    fit, rng, generation, ret >>

NextBreed == BreedInitialize \/ BreedCrossover \/ BreedMutate
SpecBreed == InitBreed /\ [][NextBreed]_vars

\* C22: after a crossover call every pending event id holds in
\* (child1, child2) either (parent1's, parent2's) or (parent2's, parent1's)
\* assignment, and the children have no other keys.
C22_ChildrenMixParentsPerEvent ==
    (pc \in Bred /\ call.op = "crossover") =>
        /\ DOMAIN call.result[1] = ChromosomeKeys(ga_data)
        /\ DOMAIN call.result[2] = ChromosomeKeys(ga_data)
        /\ \A e \in ChromosomeKeys(ga_data) :
              << call.result[1][e], call.result[2][e] >>
                 \in { << Get(call.args[1], e), Get(call.args[2], e) >>,
                       << Get(call.args[2], e), Get(call.args[1], e) >> }

\* the parents differ at e1 and at e2, and the children swapped one of
\* the two and kept the other
C22_Witness ==
    /\ pc = "crossed" /\ call.op = "crossover"
    /\ \A e \in {"e1", "e2"} : call.args[1][e] # call.args[2][e]
    /\ call.result[1]["e1"] = call.args[2]["e1"]
    /\ call.result[2]["e1"] = call.args[1]["e1"]
    /\ call.result[1]["e2"] = call.args[1]["e2"]
    /\ call.result[2]["e2"] = call.args[2]["e2"]

MutateAttempts == 5     \* while attempts < 5
MaxDraws == 7           \* passes of the retry loop that are followed

\* the chromosome handed to mutate: nothing scheduled, or e1 scheduled
MutateInputs ==
    { [e \in {"e1", "e2"} |-> NoSlot],
      [e \in {"e1", "e2"} |->
          IF e = "e1" THEN Slot("v1", At(1, HM(9, 0)), At(1, HM(11, 0))) ELSE NoSlot] }

\* `call` is the loop for event args[1]: `attempts` as the code counts
\* them, `draws` the passes through the loop body
InitMutate ==
    /\ pc = "mutate_retry"
    /\ \E sw \in {0, 4} :
          request = [start_weekday |-> sw, mutation_rate |-> DEFAULT_MUTATION_RATE,
                     crossover_rate |-> DEFAULT_CROSSOVER_RATE]
    /\ calendar_file = NoCalendar
    /\ \E req2 \in GenRequests : db = GenDb(req2)
    /\ ga_data = fetch_ga_data(request.start_weekday, db,
                    process_weekly_constraints(request.start_weekday, calendar_file))
    /\ weights = DefaultWeights
    /\ chromosome \in MutateInputs
    /\ fit = NotEvaluated
    /\ rng = [days |-> 0..(WeekDays - 1), hours |-> {6, 20}, minutes |-> {0, 45}]
    /\ population = << chromosome >>
    /\ \E ev \in {"e1", "e2"} :
          call = [op |-> "mutate", args |-> << ev >>, attempts |-> 0, draws |-> 0,
                  result |-> << >>]
    /\ evaluated = {} /\ best = NoBest /\ generation = 0 /\ ret = NoRet

\* one pass of `while attempts < 5`: a Sunday counts an attempt, a failed
\* end or start check goes round again without counting, anything else is
\* stored
MutateDraw ==
    /\ pc = "mutate_retry"
    /\ call.attempts < MutateAttempts
    /\ call.draws < MaxDraws
    /\ \E v \in DOMAIN ga_data.venues, dd \in rng.days, h \in rng.hours, m \in rng.minutes :
          LET st == At(dd, HM(h, m))
              en == st + DurationOf(ga_data.pending_events[call.args[1]])
          IN  IF Weekday(ga_data.start_weekday, dd) = 6
              THEN /\ call' = [call EXCEPT !.attempts = @ + 1, !.draws = @ + 1]
                   /\ UNCHANGED << pc, chromosome >>
              ELSE IF ~EndChecksPass(st, en) \/ StartInCurfew(st)
              THEN /\ call' = [call EXCEPT !.draws = @ + 1]
                   /\ UNCHANGED << pc, chromosome >>
              ELSE /\ call' = [call EXCEPT !.draws = @ + 1, !.result = << Slot(v, st, en) >>]
                   /\ chromosome' = [chromosome EXCEPT ![call.args[1]] = Slot(v, st, en)]
                   /\ pc' = "mutated"
    /\ UNCHANGED << evaluated, request, calendar_file, db, ga_data, weights, fit, rng,
                    population, optvars >>

\* the attempts ran out: None is stored
MutateGiveUp ==
    /\ pc = "mutate_retry"
    /\ call.attempts >= MutateAttempts
    /\ call' = [call EXCEPT !.result = << NoSlot >>]
    /\ chromosome' = [chromosome EXCEPT ![call.args[1]] = NoSlot]
    /\ pc' = "mutated"
    /\ UNCHANGED << evaluated, request, calendar_file, db, ga_data, weights, fit, rng,
                    population, optvars >>

NextMutate == MutateDraw \/ MutateGiveUp
SpecMutate == InitMutate /\ [][NextMutate]_vars

\* C23: an event selected by mutate ends with a new slot that passed the
\* day and curfew checks or with None, every other event keeps its
\* assignment, and the retry loop never makes more passes than the
\* attempt budget.
C23_MutateWithinAttemptBudget ==
    /\ call.draws <= MutateAttempts
    /\ \A e \in DOMAIN chromosome : e # call.args[1] => chromosome[e] = population[1][e]
    /\ pc = "mutated" =>
          \/ chromosome[call.args[1]] = NoSlot
          \/ LET sl == chromosome[call.args[1]] IN
             /\ Weekday(ga_data.start_weekday, DateOf(sl.start)) # 6
             /\ EndChecksPass(sl.start, sl.end) /\ ~StartInCurfew(sl.start)

\* C24: the general blocked intervals compiled for the week hold, for each
\* of its days, an interval from 22:00 to 06:00 of the next day, and for
\* each Sunday an interval from 00:00 of that day to 00:00 of the next.
C24_CurfewAndSundayAlwaysBlocked ==
    LET slots == ga_data.week_constraints.unavailable_general_slots
    IN  \A dd \in 0..(WeekDays - 1) :
            /\ \E i \in 1..Len(slots) :
                  /\ slots[i].start = At(dd, HM(22, 0))
                  /\ slots[i].end = At(dd + 1, HM(6, 0))
            /\ Weekday(ga_data.start_weekday, dd) = 6 =>
                  \E i \in 1..Len(slots) :
                     /\ slots[i].start = At(dd, 0)
                     /\ slots[i].end = At(dd + 1, 0)

\* the Sunday of the week is the national holiday: it is covered by the
\* holiday's interval, no "Sunday Blockage" interval is compiled, and the
\* curfew of that night is there
C24_Witness ==
    LET slots == ga_data.week_constraints.unavailable_general_slots
    IN  /\ pc = "analysed"
        /\ Weekday(ga_data.start_weekday, HolidayDay) = 6
        /\ \E i \in 1..Len(slots) :
              slots[i] = FullDaySlot(HolidayDay, HolidayName)
        /\ \A i \in 1..Len(slots) : slots[i].reason # "Sunday Blockage"
        /\ \E i \in 1..Len(slots) : slots[i] = CurfewSlot(HolidayDay)

\* ------------------------------------------------------------------------
\* SpecPure: calculate_fitness called twice on the same chromosome, with a
\* call on another chromosome in between or not
\* ------------------------------------------------------------------------
\* the scheduled slots are appended to the stored commitments of the run
\* context
inputs_after_fitness_SlotsKept(chrom, gd) ==
    << chrom,
       [gd EXCEPT !.existing_schedules =
           @ \o [i \in 1..Len(ScheduledInOrder(chrom, gd)) |->
                   LET e == ScheduledInOrder(chrom, gd)[i] IN
                   [venue_id |-> chrom[e].venue,
                    scheduled_start_time |-> chrom[e].start,
                    scheduled_end_time |-> chrom[e].end, event_id |-> e]]] >>

\* what the chromosome and the run context hold when calculate_fitness
\* returns or raises: it reads both and writes only to its own locals
\* (active_slots_by_venue, processed_event_ids, the counters)
inputs_after_fitness(chrom, gd) == << chrom, gd >>

\* another chromosome of the run: both events one after the other in v2
OtherChromosome ==
    [e \in EventIds |->
        IF e = "e1" THEN Slot("v2", At(0, HM(13, 0)), At(0, HM(14, 0)))
        ELSE Slot("v2", At(0, HM(15, 0)), At(0, HM(16, 0)))]

InitPure ==
    /\ \E hectic \in BOOLEAN, existing \in ExistingChoices, qty \in {1, MaxQty} :
          ga_data = FitGaData(hectic, existing, 0, qty, << "e1", "e2" >>)
    /\ weights = DefaultWeights
    /\ chromosome \in [EventIds -> FitSlots]
    /\ fit = NotEvaluated
    /\ pc = "calculate_fitness"
    /\ request = NoRequest /\ calendar_file = NoCalendar /\ db = NoDb
    /\ rng = NoRng /\ population = << >>
    /\ call = NoCall /\ evaluated = {} /\ best = NoBest /\ generation = 0 /\ ret = NoRet

\* first call: the result is kept in `fit`
PureEvaluate ==
    /\ pc = "calculate_fitness"
    /\ fit' = calculate_fitness(chromosome, ga_data, weights)
    /\ \E after \in { inputs_after_fitness(chromosome, ga_data) } :
          chromosome' = after[1] /\ ga_data' = after[2]
    /\ pc' = "evaluated"
    /\ UNCHANGED << call, evaluated, request, calendar_file, db, weights,
                    rng, population, optvars >>

\* a call on another chromosome with the same run context
PureEvaluateOther ==
    /\ pc = "evaluated"
    /\ population' = << OtherChromosome >>
    /\ \E after \in { inputs_after_fitness(OtherChromosome, ga_data) } :
          ga_data' = after[2]
    /\ pc' = "evaluated_other"
    /\ UNCHANGED << call, evaluated, request, calendar_file, db, weights, chromosome,
                    fit, rng, optvars >>

\* second call on the first chromosome: the result is kept in `call`
PureEvaluateAgain ==
    /\ pc \in {"evaluated", "evaluated_other"}
    /\ call' = [args |-> << >>,
                result |-> << calculate_fitness(chromosome, ga_data, weights) >>]
    /\ \E after \in { inputs_after_fitness(chromosome, ga_data) } :
          chromosome' = after[1] /\ ga_data' = after[2]
    /\ pc' = "evaluated_again"
    /\ UNCHANGED << evaluated, request, calendar_file, db, weights, fit,
                    rng, population, optvars >>

NextPure == PureEvaluate \/ PureEvaluateOther \/ PureEvaluateAgain
SpecPure == InitPure /\ [][NextPure]_vars

C26_FewerViolationsScoreHigher ==
    (pc = "evaluated" /\ fit.status = "returned") =>
        \A other \in [EventIds -> FitSlots] :
            LET r == calculate_fitness(other, ga_data, weights) IN
            (r.status = "returned" /\ r.violations < fit.violations)
                => r.score > fit.score

\* ------------------------------------------------------------------------
\* SpecEvents: the request handlers that change an event's status or its
\* schedule documents (routers/events.py, routers/optimization.py), served
\* concurrently; every awaited database call is one step
\* ------------------------------------------------------------------------
Procs == {"p1", "p2"}   \* requests served at the same time
MaxCalls == 2           \* requests each of them serves
MaxInserted == 3        \* schedule documents ever inserted

Approve == [op |-> "update_event_status", arg |-> "Approved"]
Reject == [op |-> "update_event_status", arg |-> "Rejected"]
AcceptScheduled == [op |-> "accept_optimization_proposal", arg |-> "accepted"]
AcceptUnscheduled == [op |-> "accept_optimization_proposal", arg |-> "unscheduled"]
AdminCancel == [op |-> "admin_cancel_event_request", arg |-> "None"]
StudentCancel == [op |-> "cancel_pending_event_request", arg |-> "None"]

\* the requests the clients send in a run: approvals only; the operations
\* of an administrator; every status the update endpoint accepts and both
\* cancel endpoints
ApprovalsOnly == { Approve }
AdminOperations == { Approve, Reject, AcceptScheduled, AdminCancel }
AllRequests ==
    AdminOperations \cup { AcceptUnscheduled, StudentCancel }
      \cup { [op |-> "update_event_status", arg |-> st] :
                st \in {"Needs_Alternatives", "Pending", "Cancelled"} }

\* the locals of a handler: the request, the event document it fetched,
\* new_schedule_id, and the number of requests served before
IdleCall == [req |-> [op |-> "None", arg |-> "None"],
             event |-> [approval_status |-> "None", schedule_id |-> << >>],
             new_schedule_id |-> << >>, served |-> 0]

\* one Pending event e1 without schedule; db.inserted numbers the ObjectIds
\* of the schedule documents
InitEvents ==
    /\ pc = [p \in Procs |-> "idle"]
    /\ call = [p \in Procs |-> IdleCall]
    /\ \E pref \in BOOLEAN :
          db = [reachable |-> TRUE,
                events |-> [e \in {"e1"} |->
                              [approval_status |-> "Pending", schedule_id |-> << >>]],
                schedules |-> {}, inserted |-> 0, has_preference |-> pref]
    /\ request \in { [requests |-> r] : r \in {ApprovalsOnly, AdminOperations, AllRequests} }
    /\ calendar_file = NoCalendar /\ ga_data = NoGaData /\ weights = DefaultWeights
    /\ chromosome = NoChromosome /\ fit = NotEvaluated
    /\ rng = NoRng /\ population = << >>
    /\ evaluated = {} /\ best = NoBest /\ generation = 0 /\ ret = NoRet

eventvars == << request, calendar_file, ga_data, weights, chromosome, fit, rng,
                population, best, generation, ret, evaluated >>

\* the handler of p goes on at `label`
Goto(p, label) == pc' = [pc EXCEPT ![p] = label]

\* the handler of p returns or raises HTTPException
Return_(p) ==
    /\ pc' = [pc EXCEPT ![p] = "idle"]
    /\ call' = [call EXCEPT ![p] = [IdleCall EXCEPT !.served = call[p].served + 1]]

\* a request arrives
ReceiveRequest(p) ==
    /\ pc[p] = "idle"
    /\ call[p].served < MaxCalls
    /\ \E req \in request.requests :
          /\ call' = [call EXCEPT ![p].req = req]
          /\ Goto(p, IF req.op = "accept_optimization_proposal"
                      THEN "insert_many" ELSE "find_event")
    /\ UNCHANGED << db, eventvars >>

\* db.events.find_one and the status checks that follow it in
\* update_event_status, cancel_pending_event_request and
\* admin_cancel_event_request
FindEvent(p) ==
    /\ pc[p] = "find_event"
    /\ LET ev == db.events["e1"]
           req == call[p].req
           Go(label) == /\ Goto(p, label)
                        /\ call' = [call EXCEPT ![p].event = ev]
       IN  CASE req.op = "update_event_status" ->
                  IF ev.approval_status = req.arg
                     \/ ev.approval_status \in {"Rejected", "Cancelled"}
                  THEN Return_(p)
                  ELSE IF req.arg = "Approved" THEN Go("find_schedule")
                  ELSE IF req.arg = "Needs_Alternatives" THEN Go("find_preference")
                  ELSE Go("update_event")
             [] req.op = "cancel_pending_event_request" ->
                  IF ev.approval_status # "Pending" THEN Return_(p)
                  ELSE Go("cancel_event")
             [] OTHER ->
                  IF ev.approval_status = "Cancelled" THEN Return_(p)
                  ELSE Go("cancel_event")
    /\ UNCHANGED << db, eventvars >>

\* db.schedules.find_one({"event_id": ...}) of an approval
FindSchedule(p) ==
    /\ pc[p] = "find_schedule"
    /\ IF db.schedules = {}
       THEN Goto(p, "insert_schedule") /\ UNCHANGED call
       ELSE \E sd \in db.schedules :
               /\ call' = [call EXCEPT ![p].new_schedule_id = << sd.id >>]
               /\ Goto(p, "update_event")
    /\ UNCHANGED << db, eventvars >>

\* the schedule documents after an insert, and the id given to the new one
Inserted(db0, optimized) ==
    [db0 EXCEPT !.inserted = @ + 1,
                !.schedules = @ \cup { [id |-> db0.inserted + 1, event_id |-> "e1",
                                         is_optimized |-> optimized] }]

\* db.schedules.insert_one of an approval
InsertSchedule(p) ==
    /\ pc[p] = "insert_schedule"
    /\ db.inserted < MaxInserted
    /\ db' = Inserted(db, FALSE)
    /\ call' = [call EXCEPT ![p].new_schedule_id = << db.inserted + 1 >>]
    /\ Goto(p, "update_event")
    /\ UNCHANGED eventvars

\* db.preferences.find_one of "Needs Alternatives"
FindPreference(p) ==
    /\ pc[p] = "find_preference"
    /\ IF db.has_preference THEN Goto(p, "update_event") /\ UNCHANGED call
       ELSE Return_(p)
    /\ UNCHANGED << db, eventvars >>

\* db.events.update_one of update_event_status, then the cleanup of a
\* rejection
UpdateEvent(p) ==
    /\ pc[p] = "update_event"
    /\ db' = [db EXCEPT
                !.events["e1"].approval_status = call[p].req.arg,
                !.events["e1"].schedule_id =
                    IF call[p].new_schedule_id # << >> THEN call[p].new_schedule_id
                    ELSE @]
    /\ IF call[p].req.arg = "Rejected"
       THEN Goto(p, "cleanup") /\ UNCHANGED call
       ELSE Return_(p)
    /\ UNCHANGED eventvars

\* db.events.update_one of the two cancel endpoints
CancelEvent(p) ==
    /\ pc[p] = "cancel_event"
    /\ db' = [db EXCEPT !.events["e1"].approval_status = "Cancelled"]
    /\ Goto(p, "cleanup") /\ UNCHANGED call
    /\ UNCHANGED eventvars

\* the schedule is deleted by the schedule_id of the document fetched before
\* the status change
perform_event_cleanup_ByEventId(db0, event_doc, delete_schedule) ==
    IF delete_schedule
    THEN [db0 EXCEPT !.schedules = { sd \in @ : sd.event_id # "e1" }]
    ELSE db0

\* _perform_event_cleanup: the schedule is deleted by the schedule_id of
\* the event document that was fetched before the status change
perform_event_cleanup(db0, event_doc, delete_schedule) ==
    IF delete_schedule /\ event_doc.schedule_id # << >>
    THEN [db0 EXCEPT !.schedules = { sd \in @ : << sd.id >> # event_doc.schedule_id }]
    ELSE db0

Cleanup(p) ==
    /\ pc[p] = "cleanup"
    /\ db' = perform_event_cleanup(db, call[p].event,
                 call[p].req.op # "cancel_pending_event_request")
    /\ Return_(p)
    /\ UNCHANGED eventvars

\* accept_optimization_proposal, 1: insert_many of the accepted entries
InsertMany(p) ==
    /\ pc[p] = "insert_many"
    /\ IF call[p].req.arg = "accepted"
       THEN /\ db.inserted < MaxInserted
            /\ db' = Inserted(db, TRUE)
            /\ Goto(p, "update_scheduled")
       ELSE /\ UNCHANGED db
            /\ Goto(p, "update_unscheduled")
    /\ UNCHANGED << call, eventvars >>

\* update_many with the filter approval_status = Pending
UpdatedPending(db0, st) ==
    IF db0.events["e1"].approval_status = "Pending"
    THEN [db0 EXCEPT !.events["e1"].approval_status = st]
    ELSE db0

\* accept_optimization_proposal, 2: scheduled events become Approved
UpdateScheduled(p) ==
    /\ pc[p] = "update_scheduled"
    /\ db' = UpdatedPending(db, "Approved")
    /\ Return_(p)
    /\ UNCHANGED eventvars

\* accept_optimization_proposal, 3: unscheduled events become
\* Needs_Alternatives
UpdateUnscheduled(p) ==
    /\ pc[p] = "update_unscheduled"
    /\ db' = UpdatedPending(db, "Needs_Alternatives")
    /\ Return_(p)
    /\ UNCHANGED eventvars

NextEvents ==
    \E p \in Procs :
        \/ ReceiveRequest(p)
        \/ FindEvent(p)
        \/ FindSchedule(p)
        \/ InsertSchedule(p)
        \/ FindPreference(p)
        \/ UpdateEvent(p)
        \/ CancelEvent(p)
        \/ Cleanup(p)
        \/ InsertMany(p)
        \/ UpdateScheduled(p)
        \/ UpdateUnscheduled(p)
SpecEvents == InitEvents /\ [][NextEvents]_vars

\* no request is being served
Quiet == \A p \in Procs : pc[p] = "idle"

\* C28: when the clients send approvals, rejections, accepted proposals
\* and administrator cancellations only, whenever no request is being
\* served an event that is Rejected or Cancelled has no schedule document.
C28_NoScheduleOfRejectedOrCancelled ==
    (request.requests = AdminOperations /\ Quiet
       /\ db.events["e1"].approval_status \in {"Rejected", "Cancelled"})
    => \A sd \in db.schedules : sd.event_id # "e1"

\* C29: when the clients send approvals only, whenever no request is
\* being served there is at most one schedule document of the event.
C29_OneSchedulePerApprovedEvent ==
    (request.requests = ApprovalsOnly /\ Quiet) =>
        Cardinality({ sd \in db.schedules : sd.event_id = "e1" }) <= 1

\* C30: no step of a handler changes an approval_status that is Cancelled.
C30_CancelledIsAbsorbing ==
    [][db.events["e1"].approval_status = "Cancelled"
         => db'.events["e1"].approval_status = "Cancelled"]_vars
====
